---- MODULE Spec2Model ----
(***************************************************************************)
(* A model of UltimateHybridStrategy (src/src/ultimate_hybrid_strategy.py): *)
(* the grid planner, the launch (session breakout) detector, the market    *)
(* profile builder and the risk gate, with the handlers on_tick and the    *)
(* order events.                                                           *)
(*                                                                         *)
(* Numbers.  Decimal and float quantities are exact rationals <<n, d>> in  *)
(* lowest terms with d > 0 (28-digit Decimal rounding and binary float     *)
(* rounding are not modelled).  None, and an attribute that does not exist *)
(* yet (hasattr is false), is the empty tuple <<>>.  Time is in whole      *)
(* minutes since midnight of day 0; every datetime.now() read inside one   *)
(* handler returns the same instant.                                       *)
(*                                                                         *)
(* Methods are operators on a "world" record w:                            *)
(*   w.self  the strategy object's fields                                  *)
(*   w.conn  the connector: the next order id it hands out                 *)
(*   w.out   the requests the handler has sent so far (orders, cancels)    *)
(*   w.env   what the connector answers during this handler (mid price,    *)
(*           order-book volume, balances, active orders)                   *)
(*   w.now   the clock                                                     *)
(***************************************************************************)
EXTENDS Integers, Sequences, FiniteSets, TLC

VARIABLES self, conn, out, now, last

vars == <<self, conn, out, now, last>>

(* ------------------------------------------------------------------ *)
(* Exact rational arithmetic (Decimal / float values)                  *)
(* ------------------------------------------------------------------ *)

Abs(x) == IF x < 0 THEN -x ELSE x

RECURSIVE GCD(_, _)
GCD(a, b) == IF b = 0 THEN a ELSE GCD(b, a % b)

Rat(n, d) ==
    LET g == GCD(Abs(n), Abs(d))
        s == IF d < 0 THEN -1 ELSE 1
    IN  <<s * (n \div g), s * (d \div g)>>

Z(k) == <<k, 1>>

(* Sums go through the least common denominator, which keeps the           *)
(* intermediate products small.                                            *)
RAdd(x, y) ==
    LET g == GCD(x[2], y[2])
    IN  Rat(x[1] * (y[2] \div g) + y[1] * (x[2] \div g), (x[2] \div g) * y[2])
RSub(x, y) == RAdd(x, <<-y[1], y[2]>>)
RMul(x, y) ==
    LET g1 == GCD(Abs(x[1]), y[2])
        g2 == GCD(Abs(y[1]), x[2])
    IN  Rat((x[1] \div g1) * (y[1] \div g2), (x[2] \div g2) * (y[2] \div g1))
RDiv(x, y) == RMul(x, IF y[1] < 0 THEN <<-y[2], -y[1]>> ELSE <<y[2], y[1]>>)
RAbs(x) == <<Abs(x[1]), x[2]>>
(* x < y by comparing integer parts and then, Euclid-style, the inverted    *)
(* fractional parts: no product is formed, so nothing overflows.           *)
RECURSIVE RLt(_, _)
RLt(x, y) ==
    LET qx == x[1] \div x[2]
        qy == y[1] \div y[2]
        rx == x[1] % x[2]
        ry == y[1] % y[2]
    IN  IF qx # qy THEN qx < qy
        ELSE IF ry = 0 THEN FALSE
        ELSE IF rx = 0 THEN TRUE
        ELSE RLt(<<y[2], ry>>, <<x[2], rx>>)
RLe(x, y) == ~RLt(y, x)
RGt(x, y) == RLt(y, x)
RGe(x, y) == RLe(y, x)
RMax(x, y) == IF RLt(x, y) THEN y ELSE x
RMin(x, y) == IF RLt(y, x) THEN y ELSE x

None == <<>>

(* F applied to the value of v, with v evaluated once: a local variable    *)
(* that is assigned once and read many times.                              *)
With(v, F(_)) == CHOOSE r \in {F(x) : x \in {v}} : TRUE

(* ------------------------------------------------------------------ *)
(* Configuration (class attributes)                                    *)
(* ------------------------------------------------------------------ *)

base_grid_count == 8
base_spacing_pct == Rat(12, 10)
atr_period == 14
atr_multiplier == Rat(15, 10)
grid_rebalance_threshold == Rat(5, 100)
grid_order_amount == Rat(1, 10)
grid_max_spread == Rat(15, 100)
grid_min_spread == Rat(5, 1000)
mp_poc_weight == Rat(4, 10)
enable_market_profile == TRUE
mp_session_length == 24
mp_tpo_percent == Rat(70, 1)
mp_price_levels == 20
mp_update_frequency == 30
enable_grid == TRUE

(* The longest a grid order rests before refresh_old_grid_orders asks for  *)
(* its cancel: timedelta(seconds=3600), in minutes.                        *)
max_order_age == 60
enable_launch_strategy == TRUE
launch_time_start == 60
launch_time_end == 480
needle_body_ratio == Z(2)
launch_cooldown_minutes == 30
launch_min_range_pct == Rat(5, 1000)
launch_max_range_pct == Rat(50, 1000)
max_portfolio_risk == Z(12)
max_single_position == Z(4)
max_concurrent_trades == 10
min_balance_threshold == Z(50)
emergency_stop_drawdown == Z(20)
daily_loss_limit == Z(5)
max_consecutive_losses == 5
enable_volatility_filter == TRUE
volatility_threshold == Rat(15, 10)
trend_period == 50
trend_strength_threshold == Rat(15, 1000)
(* status_update_interval is 60 seconds: one minute.                       *)
status_update_interval == 1
max_price_history == 500

(* ------------------------------------------------------------------ *)
(* The object after __init__                                           *)
(* ------------------------------------------------------------------ *)

InitSelf ==
    [ price_history          |-> <<>>,
      current_price          |-> Z(0),
      atr_value              |-> Z(0),
      volatility_ratio       |-> Z(0),
      trend_direction        |-> 0,
      current_bias           |-> 0,
      price_momentum         |-> Z(0),
      sma_20                 |-> Z(0),
      sma_50                 |-> Z(0),
      grid_mode              |-> "ATR Based",
      grid_initialized       |-> FALSE,
      grid_base_price        |-> Z(0),
      grid_spacing           |-> Z(0),
      active_grid_orders     |-> [buy |-> <<>>, sell |-> <<>>],
      grid_buy_levels        |-> <<>>,
      grid_sell_levels       |-> <<>>,
      total_grid_trades      |-> 0,
      grid_profit            |-> Z(0),
      mp_is_valid            |-> FALSE,
      mp_poc_price           |-> Z(0),
      mp_vah_price           |-> Z(0),
      mp_val_price           |-> Z(0),
      mp_value_area_range    |-> Z(0),
      mp_tpo_data            |-> <<>>,
      last_mp_update         |-> 0,
      launch_session_active  |-> FALSE,
      launch_high            |-> None,
      launch_low             |-> None,
      launch_range_confirmed |-> FALSE,
      last_launch_trade      |-> 0 - 60,
      total_launch_trades    |-> 0,
      enable_bias_filter     |-> TRUE,
      current_volume_ratio   |-> None,
      account_balance        |-> Z(0),
      current_portfolio_risk |-> Z(0),
      active_trades_count    |-> 0,
      total_exposure         |-> Z(0),
      can_trade              |-> TRUE,
      restriction_reason     |-> "",
      consecutive_losses     |-> 0,
      daily_pnl              |-> Z(0),
      max_drawdown           |-> Z(0),
      peak_balance           |-> None,
      total_trades           |-> 0,
      winning_trades         |-> 0,
      losing_trades          |-> 0,
      win_rate               |-> Z(0),
      last_status_update     |-> 0 ]

EmptyOut == [orders |-> <<>>, cancels |-> <<>>]

InitConn == [next_id |-> 1]

World(s, c, e, t) == [self |-> s, conn |-> c, out |-> EmptyOut, env |-> e, now |-> t]

(* ------------------------------------------------------------------ *)
(* Grid trading system                                                 *)
(* ------------------------------------------------------------------ *)

(* The row of the balance table for an asset: its available balance, 0     *)
(* when the table has no such row.                                         *)
AvailableBalance(w, asset) ==
    IF asset = "USDT" THEN w.env.usdt_avail ELSE w.env.base_avail

check_order_viability(w, is_buy, price, amount) ==
    IF RLt(amount, Rat(1, 1000)) THEN FALSE
    ELSE IF RGt(RDiv(RAbs(RSub(price, w.self.current_price)), w.self.current_price),
                Rat(1, 10)) THEN FALSE
    ELSE LET required == IF is_buy THEN RMul(amount, price) ELSE amount
         IN  IF ~w.env.balance_empty
                /\ RLt(AvailableBalance(w, IF is_buy THEN "USDT" ELSE "WLD"),
                       RMul(required, Rat(101, 100)))
             THEN FALSE
             ELSE TRUE

(* self.buy / self.sell with OrderType.LIMIT: the connector hands out a    *)
(* fresh order id and the order is tracked under it.                       *)
SubmitGridOrder(w, side, level_price) ==
    LET id == w.conn.next_id
        entry == [id |-> id, price |-> level_price, amount |-> grid_order_amount,
                  timestamp |-> w.now]
    IN  [w EXCEPT !.conn.next_id = id + 1,
                  !.out.orders = Append(@, [id |-> id, side |-> side, type |-> "LIMIT",
                                            price |-> level_price,
                                            amount |-> grid_order_amount]),
                  !.self.active_grid_orders[side] = Append(@, entry)]

(* One side's loop of place_grid_orders from level i on.  The membership   *)
(* test reads order.price of every tracked entry of the side; the entries  *)
(* are dicts, so the read raises AttributeError as soon as the side tracks *)
(* one order.  Result: the world, and whether the exception was raised.    *)
RECURSIVE PlaceSide(_, _, _, _)
PlaceSide(w, side, levels, i) ==
    IF i > Len(levels) THEN [w |-> w, raised |-> FALSE]
    ELSE IF Len(w.self.active_grid_orders[side]) > 0
         THEN [w |-> w, raised |-> TRUE]
    ELSE IF check_order_viability(w, side = "buy", levels[i], grid_order_amount)
         THEN PlaceSide(SubmitGridOrder(w, side, levels[i]), side, levels, i + 1)
    ELSE PlaceSide(w, side, levels, i + 1)

place_grid_orders(w) ==
    LET b == PlaceSide(w, "buy", w.self.grid_buy_levels, 1)
    IN  IF b.raised THEN b.w
        ELSE PlaceSide(b.w, "sell", w.self.grid_sell_levels, 1).w

(* The level lists of initialize_grid: i = 1..count, a buy level kept only *)
(* when positive.                                                          *)
(* Mutant: the loop stops one level short, range(1, count).               *)
RECURSIVE BuyLevelsShort(_, _, _, _)
BuyLevelsShort(base, spacing, i, count) ==
    IF i >= count THEN <<>>
    ELSE LET buy_price == RSub(base, RMul(spacing, Z(i)))
         IN  (IF RGt(buy_price, Z(0)) THEN <<buy_price>> ELSE <<>>)
             \o BuyLevelsShort(base, spacing, i + 1, count)

RECURSIVE BuyLevels(_, _, _, _)
BuyLevels(base, spacing, i, count) ==
    IF i > count THEN <<>>
    ELSE LET buy_price == RSub(base, RMul(spacing, Z(i)))
         IN  (IF RGt(buy_price, Z(0)) THEN <<buy_price>> ELSE <<>>)
             \o BuyLevels(base, spacing, i + 1, count)

(* Mutant: the sell price is computed like the buy price, base - spacing*i. *)
RECURSIVE SellLevelsMirrored(_, _, _, _)
SellLevelsMirrored(base, spacing, i, count) ==
    IF i > count THEN <<>>
    ELSE <<RSub(base, RMul(spacing, Z(i)))>>
         \o SellLevelsMirrored(base, spacing, i + 1, count)

RECURSIVE SellLevels(_, _, _, _)
SellLevels(base, spacing, i, count) ==
    IF i > count THEN <<>>
    ELSE <<RAdd(base, RMul(spacing, Z(i)))>> \o SellLevels(base, spacing, i + 1, count)

GridBasePrice(s) ==
    IF enable_market_profile /\ s.mp_is_valid /\ RGt(s.mp_poc_price, Z(0))
    THEN LET poc_weight == mp_poc_weight
             price_weight == RSub(Z(1), poc_weight)
         IN  RAdd(RMul(s.current_price, price_weight), RMul(s.mp_poc_price, poc_weight))
    ELSE s.current_price

MinSpacing(base) == RMul(base, grid_min_spread)
MaxSpacing(base) == RMul(base, RDiv(grid_max_spread, Z(base_grid_count)))

(* Mutant: only the upper limit is applied.                                *)
ClampSpacingUpperOnly(raw, base) == RMin(raw, MaxSpacing(base))

ClampSpacing(raw, base) == RMax(MinSpacing(base), RMin(raw, MaxSpacing(base)))

GridSpacing(s, base) ==
    LET raw == IF s.grid_mode = "ATR Based"
               THEN RMul(s.atr_value, atr_multiplier)
               ELSE RMul(base, RDiv(base_spacing_pct, Z(100)))
    IN  ClampSpacing(raw, base)

(* Mutant: a rebuild that keeps the level lists of the previous plan when  *)
(* it has one and only moves the base and the spacing.                     *)
initialize_grid_keeps_levels(w) ==
    IF RLe(w.self.current_price, Z(0)) \/ RLe(w.self.atr_value, Z(0)) THEN w
    ELSE LET base == GridBasePrice(w.self)
             spacing == GridSpacing(w.self, base)
             had_plan == Len(w.self.grid_sell_levels) > 0
         IN  place_grid_orders(
                [w EXCEPT !.self.grid_base_price = base,
                          !.self.grid_spacing = spacing,
                          !.self.grid_buy_levels =
                              IF had_plan THEN @
                              ELSE BuyLevels(base, spacing, 1, base_grid_count),
                          !.self.grid_sell_levels =
                              IF had_plan THEN @
                              ELSE SellLevels(base, spacing, 1, base_grid_count),
                          !.self.grid_initialized = TRUE])

(* Mutant: a build without the guard on the price and the ATR.             *)
initialize_grid_unguarded(w) ==
    LET base == GridBasePrice(w.self)
        spacing == GridSpacing(w.self, base)
    IN  place_grid_orders(
           [w EXCEPT !.self.grid_base_price = base,
                     !.self.grid_spacing = spacing,
                     !.self.grid_buy_levels = BuyLevels(base, spacing, 1, base_grid_count),
                     !.self.grid_sell_levels = SellLevels(base, spacing, 1, base_grid_count),
                     !.self.grid_initialized = TRUE])

initialize_grid(w) ==
    IF RLe(w.self.current_price, Z(0)) \/ RLe(w.self.atr_value, Z(0)) THEN w
    ELSE LET base == GridBasePrice(w.self)
             spacing == GridSpacing(w.self, base)
         IN  place_grid_orders(
                [w EXCEPT !.self.grid_base_price = base,
                          !.self.grid_spacing = spacing,
                          !.self.grid_buy_levels =
                              BuyLevels(base, spacing, 1, base_grid_count),
                          !.self.grid_sell_levels =
                              SellLevels(base, spacing, 1, base_grid_count),
                          !.self.grid_initialized = TRUE])

RECURSIVE CancelEach(_, _, _)
CancelEach(w, entries, i) ==
    IF i > Len(entries) THEN w
    ELSE CancelEach([w EXCEPT !.out.cancels = Append(@, entries[i].id)], entries, i + 1)

cancel_all_grid_orders(w) ==
    LET w1 == CancelEach(w, w.self.active_grid_orders.buy, 1)
        w2 == CancelEach(w1, w.self.active_grid_orders.sell, 1)
    IN  [w2 EXCEPT !.self.active_grid_orders = [buy |-> <<>>, sell |-> <<>>]]

OlderThanMaxAge(w, entries) ==
    SelectSeq(entries, LAMBDA e : w.now - e.timestamp > max_order_age)

refresh_old_grid_orders(w) ==
    LET w1 == CancelEach(w, OlderThanMaxAge(w, w.self.active_grid_orders.buy), 1)
    IN  CancelEach(w1, OlderThanMaxAge(w, w.self.active_grid_orders.sell), 1)

(* Mutant: the threshold itself already triggers (>= for >).               *)
NeedsRebalanceAtThreshold(s) ==
    RGe(RDiv(RAbs(RSub(s.current_price, s.grid_base_price)), s.grid_base_price),
        grid_rebalance_threshold)

NeedsRebalance(s) ==
    RGt(RDiv(RAbs(RSub(s.current_price, s.grid_base_price)), s.grid_base_price),
        grid_rebalance_threshold)

manage_grid_orders(w) ==
    IF NeedsRebalance(w.self)
    THEN [cancel_all_grid_orders(w) EXCEPT !.self.grid_initialized = FALSE]
    ELSE refresh_old_grid_orders(w)

execute_grid_strategy(w) ==
    IF ~w.self.grid_initialized THEN initialize_grid(w) ELSE manage_grid_orders(w)

(* ------------------------------------------------------------------ *)
(* Market profile                                                      *)
(* ------------------------------------------------------------------ *)

(* A sample of price_history: the price as a rational, the order-book      *)
(* volume as a natural number.  mp_tpo_data, a dict from level price to    *)
(* accumulated volume, is the sequence of its items in insertion order.    *)

(* min and max over data[lo..hi]; the range is halved so that a long       *)
(* history is evaluated without deep recursion.                            *)
RECURSIVE MinPriceIn(_, _, _)
MinPriceIn(data, lo, hi) ==
    IF lo = hi THEN data[lo].price
    ELSE LET mid == (lo + hi) \div 2
         IN  RMin(MinPriceIn(data, lo, mid), MinPriceIn(data, mid + 1, hi))

RECURSIVE MaxPriceIn(_, _, _)
MaxPriceIn(data, lo, hi) ==
    IF lo = hi THEN data[lo].price
    ELSE LET mid == (lo + hi) \div 2
         IN  RMax(MaxPriceIn(data, lo, mid), MaxPriceIn(data, mid + 1, hi))

MinPrice(data) == MinPriceIn(data, 1, Len(data))
MaxPrice(data) == MaxPriceIn(data, 1, Len(data))

(* The empty histogram: level i = min_price + price_step*i for             *)
(* i = 0..mp_price_levels-1.  With a zero step every key is min_price and  *)
(* the dict holds one item.                                                *)
EmptyProfile(min_price, max_price) ==
    LET price_step == RDiv(RSub(max_price, min_price), Z(mp_price_levels))
    IN  IF price_step = Z(0) THEN <<[price |-> min_price, volume |-> 0]>>
        ELSE [i \in 1..mp_price_levels |->
                 [price |-> RAdd(min_price, RMul(price_step, Z(i - 1))), volume |-> 0]]

(* min(keys, key=lambda x: abs(x - price)): the first key at the least     *)
(* distance.                                                               *)
RECURSIVE ClosestLevel(_, _, _, _)
ClosestLevel(tpo, price, i, best) ==
    IF i > Len(tpo) THEN best
    ELSE IF RLt(RAbs(RSub(tpo[i].price, price)), RAbs(RSub(tpo[best].price, price)))
         THEN ClosestLevel(tpo, price, i + 1, i)
    ELSE ClosestLevel(tpo, price, i + 1, best)

(* The volume the samples data[lo..hi] add to each level: every sample     *)
(* adds its volume to its closest level, closest[price].  Addition is      *)
(* associative, so the loop over the samples is evaluated by halving the   *)
(* range.                                                                  *)
RECURSIVE CountTPOs(_, _, _, _, _)
CountTPOs(n, closest, data, lo, hi) ==
    IF lo = hi
    THEN [i \in 1..n |-> IF i = closest[data[lo].price] THEN data[lo].volume ELSE 0]
    ELSE With(CountTPOs(n, closest, data, lo, (lo + hi) \div 2), LAMBDA a :
         With(CountTPOs(n, closest, data, ((lo + hi) \div 2) + 1, hi), LAMBDA b :
            [i \in 1..n |-> a[i] + b[i]]))

TpoProfile(price_data) ==
    With(EmptyProfile(MinPrice(price_data), MaxPrice(price_data)), LAMBDA empty :
    With([p \in {price_data[i].price : i \in 1..Len(price_data)} |->
             ClosestLevel(empty, p, 2, 1)], LAMBDA closest :
    With(CountTPOs(Len(empty), closest, price_data, 1, Len(price_data)), LAMBDA added :
        [i \in 1..Len(empty) |-> [price |-> empty[i].price, volume |-> added[i]]])))

calculate_tpo_profile(s, price_data) ==
    IF Len(price_data) = 0 THEN s
    ELSE [s EXCEPT !.mp_tpo_data = TpoProfile(price_data)]

(* max(items, key=volume): the first item with the greatest volume.        *)
RECURSIVE MaxVolumeItem(_, _, _)
MaxVolumeItem(items, i, best) ==
    IF i > Len(items) THEN best
    ELSE IF items[i].volume > items[best].volume
         THEN MaxVolumeItem(items, i + 1, i)
    ELSE MaxVolumeItem(items, i + 1, best)

RemoveAt(seq, k) == [i \in 1..(Len(seq) - 1) |-> IF i < k THEN seq[i] ELSE seq[i + 1]]

(* sorted(items, key=volume, reverse=True): stable, so equal volumes keep  *)
(* their insertion order.                                                  *)
RECURSIVE SortByVolumeDesc(_)
SortByVolumeDesc(items) ==
    IF Len(items) = 0 THEN <<>>
    ELSE LET k == MaxVolumeItem(items, 2, 1)
         IN  <<items[k]>> \o SortByVolumeDesc(RemoveAt(items, k))

RECURSIVE SumVolume(_, _)
SumVolume(items, i) ==
    IF i > Len(items) THEN 0 ELSE items[i].volume + SumVolume(items, i + 1)

(* A maximum that keeps the last of the greatest volumes, not the first.   *)
PocLevelLastMax(tpo) ==
    tpo[CHOOSE i \in 1..Len(tpo) :
            /\ \A j \in 1..Len(tpo) : tpo[j].volume <= tpo[i].volume
            /\ \A j \in (i + 1)..Len(tpo) : tpo[j].volume < tpo[i].volume]

(* poc_level = max(self.mp_tpo_data.items(), key=lambda x: x[1])           *)
PocLevel(tpo) == tpo[MaxVolumeItem(tpo, 2, 1)]

(* An accumulation loop that never breaks: it takes every level.           *)
ValueAreaCountNoBreak(sorted, value_area_volume, i, accumulated) == Len(sorted)

(* The accumulation loop: the number of sorted levels taken when the loop  *)
(* ends, by the break or by exhausting the list.                           *)
RECURSIVE ValueAreaCount(_, _, _, _)
ValueAreaCount(sorted, value_area_volume, i, accumulated) ==
    IF i > Len(sorted) THEN Len(sorted)
    ELSE IF RGe(Z(accumulated + sorted[i].volume), value_area_volume) THEN i
    ELSE ValueAreaCount(sorted, value_area_volume, i + 1, accumulated + sorted[i].volume)

ValueAreaVolume(tpo) == RMul(Z(SumVolume(tpo, 1)), RDiv(mp_tpo_percent, Z(100)))

ValueAreaItems(tpo) ==
    With(SortByVolumeDesc(tpo), LAMBDA sorted_levels :
        SubSeq(sorted_levels, 1,
               ValueAreaCount(sorted_levels, ValueAreaVolume(tpo), 1, 0)))

calculate_market_profile_levels(s) ==
    IF Len(s.mp_tpo_data) = 0 THEN s
    ELSE With(ValueAreaItems(s.mp_tpo_data), LAMBDA value_area :
         LET poc_level == PocLevel(s.mp_tpo_data)
             s1 == [s EXCEPT !.mp_poc_price = poc_level.price]
         IN  IF Len(value_area) = 0 THEN s1
             ELSE LET vah == MaxPrice(value_area)
                      val == MinPrice(value_area)
                  IN  [s1 EXCEPT !.mp_vah_price = vah,
                                 !.mp_val_price = val,
                                 !.mp_value_area_range = RSub(vah, val)])

LastN(seq, n) == IF Len(seq) <= n THEN seq ELSE SubSeq(seq, Len(seq) - n + 1, Len(seq))

(* A profile update that rebuilds on every call with enough data.          *)
update_market_profile_every_call(w) ==
    With(LastN(w.self.price_history, mp_session_length * 60), LAMBDA recent_data :
         IF Len(recent_data) < 100 THEN w
         ELSE With(calculate_tpo_profile(w.self, recent_data), LAMBDA s1 :
              With(calculate_market_profile_levels(s1), LAMBDA s2 :
                 [w EXCEPT !.self = [s2 EXCEPT !.last_mp_update = w.now,
                                               !.mp_is_valid = TRUE]])))

update_market_profile(w) ==
    IF w.now - w.self.last_mp_update < mp_update_frequency THEN w
    ELSE With(LastN(w.self.price_history, mp_session_length * 60), LAMBDA recent_data :
         IF Len(recent_data) < 100 THEN w
         ELSE With(calculate_tpo_profile(w.self, recent_data), LAMBDA s1 :
              With(calculate_market_profile_levels(s1), LAMBDA s2 :
                 [w EXCEPT !.self = [s2 EXCEPT !.last_mp_update = w.now,
                                               !.mp_is_valid = TRUE]])))

(* ------------------------------------------------------------------ *)
(* SpecGrid: the grid planner on its own.  The market facts the grid   *)
(* reads (ATR, profile POC, grid mode) are drawn at the start; each    *)
(* step is one pass of execute_grid_strategy at a new price, as on_tick *)
(* runs it once the risk gate has passed.                              *)
(* ------------------------------------------------------------------ *)

GridMaxTime == 122
GridMaxOrderId == 3

GridPrices == {Z(94), Z(100), Z(104), Z(105), Z(106)}
GridATRs == {Z(0), Rat(1, 14), Rat(14, 14), Rat(40, 14)}
GridProfiles == { [valid |-> FALSE, poc |-> Z(0)],
                  [valid |-> TRUE, poc |-> Z(100)],
                  [valid |-> TRUE, poc |-> Rat(2053, 20)],
                  [valid |-> TRUE, poc |-> Z(85)] }
GridModes == {"ATR Based", "Percentage"}
GridSteps == {0, 61}
GridEnvs == { [balance_empty |-> FALSE, usdt_avail |-> Z(1000), base_avail |-> Z(10)],
              [balance_empty |-> FALSE, usdt_avail |-> Z(0), base_avail |-> Z(10)],
              [balance_empty |-> TRUE, usdt_avail |-> Z(0), base_avail |-> Z(0)] }

NoEnv == [balance_empty |-> TRUE, usdt_avail |-> Z(0), base_avail |-> Z(0)]

GridInit ==
    /\ \E p \in GridPrices, a \in GridATRs, m \in GridProfiles, g \in GridModes :
          self = [InitSelf EXCEPT !.current_price = p,
                                  !.atr_value = a,
                                  !.mp_is_valid = m.valid,
                                  !.mp_poc_price = m.poc,
                                  !.grid_mode = g]
    /\ conn = InitConn
    /\ out = EmptyOut
    /\ now = 0
    /\ last = [op |-> "init"]

GridStep(op, p, e, dt) ==
    /\ now + dt <= GridMaxTime
    /\ conn.next_id <= GridMaxOrderId
    /\ \E w \in {execute_grid_strategy(
                    World([self EXCEPT !.current_price = p], conn, e, now + dt))} :
           /\ self' = w.self
           /\ conn' = w.conn
           /\ out' = w.out
    /\ now' = now + dt
    /\ last' = [op |-> op]

GridInitialize(p, e, dt) ==
    /\ ~self.grid_initialized
    /\ GridStep("initialize_grid", p, e, dt)

(* manage_grid_orders reads no balance: the connector's answers are left   *)
(* out of its inputs.                                                      *)
GridManage(p, dt) ==
    /\ self.grid_initialized
    /\ GridStep("manage_grid_orders", p, NoEnv, dt)

GridNext ==
    \/ \E p \in GridPrices, e \in GridEnvs, dt \in GridSteps : GridInitialize(p, e, dt)
    \/ \E p \in GridPrices, dt \in GridSteps : GridManage(p, dt)

SpecGrid == GridInit /\ [][GridNext]_vars

(* ------------------------------------------------------------------ *)
(* Claims about the grid plan                                          *)
(* ------------------------------------------------------------------ *)

PlanBuilt == last.op = "initialize_grid" /\ self.grid_initialized

(* C1: after every successful initialize_grid the plan has as many buy     *)
(* levels as sell levels, and that number is base_grid_count: no buy level *)
(* is dropped.                                                             *)
C1_LevelCounts ==
    PlanBuilt =>
        /\ Len(self.grid_buy_levels) = base_grid_count
        /\ Len(self.grid_sell_levels) = base_grid_count

(* A plan built with the spacing at its upper clamp from a base blended    *)
(* with a POC well below the price: the lowest buy levels the model has.   *)
C1_Witness ==
    /\ PlanBuilt
    /\ self.mp_poc_price = Z(85)
    /\ self.grid_base_price # self.current_price
    /\ self.grid_spacing = RMul(self.grid_base_price, Rat(3, 160))
    /\ Len(self.grid_buy_levels) = 8

(* C2: after every successful initialize_grid every buy level is strictly  *)
(* below the base price and every sell level strictly above it; buy levels *)
(* strictly descend and sell levels strictly ascend in list order, and     *)
(* consecutive levels are exactly grid_spacing apart.                      *)
C2_LevelOrder ==
    PlanBuilt =>
        /\ \A i \in 1..Len(self.grid_buy_levels) :
              RLt(self.grid_buy_levels[i], self.grid_base_price)
        /\ \A i \in 1..Len(self.grid_sell_levels) :
              RGt(self.grid_sell_levels[i], self.grid_base_price)
        /\ \A i \in 1..(Len(self.grid_buy_levels) - 1) :
              /\ RLt(self.grid_buy_levels[i + 1], self.grid_buy_levels[i])
              /\ RSub(self.grid_buy_levels[i], self.grid_buy_levels[i + 1])
                    = self.grid_spacing
        /\ \A i \in 1..(Len(self.grid_sell_levels) - 1) :
              /\ RGt(self.grid_sell_levels[i + 1], self.grid_sell_levels[i])
              /\ RSub(self.grid_sell_levels[i + 1], self.grid_sell_levels[i])
                    = self.grid_spacing

C2_Witness ==
    /\ PlanBuilt
    /\ self.grid_mode = "ATR Based"
    /\ self.grid_base_price = Z(100)
    /\ self.grid_spacing = Rat(3, 2)
    /\ Len(self.grid_buy_levels) > 1
    /\ self.grid_buy_levels[2] = Z(97)
    /\ self.grid_sell_levels[2] = Z(103)

(* C3: after every successful initialize_grid the spacing is strictly      *)
(* positive and lies in [base*grid_min_spread,                             *)
(* base*grid_max_spread/base_grid_count], whatever the ATR and grid mode.  *)
C3_SpacingClamped ==
    PlanBuilt =>
        /\ RGt(self.grid_spacing, Z(0))
        /\ RLe(RMul(self.grid_base_price, Rat(5, 1000)), self.grid_spacing)
        /\ RLe(self.grid_spacing,
               RDiv(RMul(self.grid_base_price, Rat(15, 100)), Z(8)))

(* An ATR so small that the raw spacing is below the minimum: the plan's   *)
(* spacing is the lower clamp.                                             *)
C3_Witness ==
    /\ PlanBuilt
    /\ self.grid_mode = "ATR Based"
    /\ RLt(RMul(self.atr_value, Rat(3, 2)), RMul(self.grid_base_price, Rat(5, 1000)))
    /\ self.grid_spacing = RMul(self.grid_base_price, Rat(5, 1000))

(* C4: with an initialised grid, manage_grid_orders triggers the rebuild   *)
(* (cancels and clears grid_initialized) exactly when                      *)
(* |price - base| / base > grid_rebalance_threshold, strictly: with base   *)
(* 100, prices 106 and 94 trigger it and prices 104 and 105 do not.        *)
C4_RebalanceIff ==
    last.op = "manage_grid_orders" =>
        /\ ~self.grid_initialized
              <=> \/ RGt(self.current_price, RMul(self.grid_base_price, Rat(105, 100)))
                  \/ RLt(self.current_price, RMul(self.grid_base_price, Rat(95, 100)))
        /\ self.grid_base_price = Z(100) =>
              /\ self.current_price \in {Z(106), Z(94)} => ~self.grid_initialized
              /\ self.current_price \in {Z(104), Z(105)} => self.grid_initialized

(* manage_grid_orders at exactly the threshold: base 100, price 105.       *)
C4_Witness ==
    /\ last.op = "manage_grid_orders"
    /\ self.grid_base_price = Z(100)
    /\ self.current_price = Z(105)
    /\ self.grid_initialized

(* ------------------------------------------------------------------ *)
(* SpecProfile: the market profile builder on its own.  The price      *)
(* history is drawn at the start as ProfileBlocks runs of               *)
(* ProfileBlockLen equal samples; each step lets time pass and runs    *)
(* update_market_profile, as on_tick does once the risk gate has       *)
(* passed.                                                             *)
(* ------------------------------------------------------------------ *)

ProfileBlocks == 4
ProfileBlockLen == 25
ProfileMaxTime == 31

ProfilePrices == {Z(100), Rat(409, 4), Z(105), Z(110)}
ProfileVolumes == {0, 1}
ProfileSteps == {29, 30}

ProfileSamples == [price : ProfilePrices, volume : ProfileVolumes]

BlockHistory(blocks) ==
    [i \in 1..(Len(blocks) * ProfileBlockLen) |->
        LET b == blocks[((i - 1) \div ProfileBlockLen) + 1]
        IN  [timestamp |-> 0, price |-> b.price, volume |-> b.volume]]

ProfileInit ==
    /\ \E blocks \in [1..ProfileBlocks -> ProfileSamples] :
          self = [InitSelf EXCEPT !.price_history = BlockHistory(blocks),
                                  !.current_price = blocks[ProfileBlocks].price]
    /\ conn = InitConn
    /\ out = EmptyOut
    /\ now = 0
    /\ last = [op |-> "init"]

ProfileUpdate(dt) ==
    /\ now + dt <= ProfileMaxTime
    /\ \E w \in {update_market_profile(World(self, conn, NoEnv, now + dt))} :
          /\ self' = w.self
          /\ last' = [op |-> "update_market_profile",
                      built |-> w.self.last_mp_update = now + dt]
    /\ now' = now + dt
    /\ UNCHANGED <<conn, out>>

ProfileNext == \E dt \in ProfileSteps : ProfileUpdate(dt)

SpecProfile == ProfileInit /\ [][ProfileNext]_vars

(* ------------------------------------------------------------------ *)
(* Claims about the market profile                                     *)
(* ------------------------------------------------------------------ *)

ProfileBuilt == last.op = "update_market_profile" /\ last.built

TotalVolume == SumVolume(self.mp_tpo_data, 1)

(* C5: after any profile build, whatever the histogram (ties between       *)
(* buckets and all-zero volumes included), VAL <= POC <= VAH and the       *)
(* value-area range is VAH - VAL >= 0.                                     *)
C5_ValPocVah ==
    ProfileBuilt =>
        /\ RLe(self.mp_val_price, self.mp_poc_price)
        /\ RLe(self.mp_poc_price, self.mp_vah_price)
        /\ self.mp_value_area_range = RSub(self.mp_vah_price, self.mp_val_price)
        /\ RGe(self.mp_value_area_range, Z(0))

(* A build over a histogram in which four buckets tie for the greatest     *)
(* volume and the value area leaves the last of them out.                  *)
C5_Witness ==
    /\ ProfileBuilt
    /\ TotalVolume > 0
    /\ Cardinality({i \in 1..Len(self.mp_tpo_data) :
                       \A k \in 1..Len(self.mp_tpo_data) :
                          self.mp_tpo_data[k].volume <= self.mp_tpo_data[i].volume}) = 4
    /\ RLt(self.mp_val_price, self.mp_vah_price)
    /\ RLt(self.mp_vah_price, MaxPrice(self.mp_tpo_data))

(* The levels of the stored histogram in descending volume order, and the  *)
(* cumulative volume of the first k of them.                               *)
SortedLevels == SortByVolumeDesc(self.mp_tpo_data)

CumulativeVolume(sorted, k) == SumVolume(SubSeq(sorted, 1, k), 1)

ReachesTarget(volume) == volume * 100 >= TotalVolume * 70

IsValueArea(sorted, k) ==
    /\ \A i \in 1..(Len(sorted) - 1) : sorted[i].volume >= sorted[i + 1].volume
    /\ self.mp_vah_price = MaxPrice(SubSeq(sorted, 1, k))
    /\ self.mp_val_price = MinPrice(SubSeq(sorted, 1, k))
    /\ ReachesTarget(CumulativeVolume(sorted, k))

(* C6 as stated: whenever mp_is_valid, VAH/VAL are the max/min price of    *)
(* the first k levels in descending volume order, their cumulative volume  *)
(* reaches mp_tpo_percent/100 of the total, and without the last-added     *)
(* level the cumulative volume is below the target.                        *)
C6_Original ==
    self.mp_is_valid =>
        With(SortedLevels, LAMBDA sorted :
            \E k \in 1..Len(sorted) :
                /\ IsValueArea(sorted, k)
                /\ ~ReachesTarget(CumulativeVolume(sorted, k - 1)))

(* C6: whenever mp_is_valid, VAH/VAL are the max/min price of the first k  *)
(* levels in descending volume order, their cumulative volume reaches      *)
(* mp_tpo_percent/100 of the total, and no shorter non-empty prefix does:  *)
(* without the last-added level the cumulative volume is below the target, *)
(* except that with a total volume of zero the set is the single first     *)
(* level and the target, zero, is met by the empty set as well.            *)
C6_ValueAreaMinimal ==
    self.mp_is_valid =>
        With(SortedLevels, LAMBDA sorted :
            \E k \in 1..Len(sorted) :
                /\ IsValueArea(sorted, k)
                /\ IF TotalVolume = 0 THEN k = 1
                   ELSE ~ReachesTarget(CumulativeVolume(sorted, k - 1)))

(* A valid profile with a positive total volume whose value area takes     *)
(* more than one level and not every level that has volume.                *)
C6_Witness ==
    /\ self.mp_is_valid
    /\ TotalVolume > 0
    /\ RLt(self.mp_val_price, self.mp_vah_price)
    /\ \E i \in 1..Len(self.mp_tpo_data) :
          /\ self.mp_tpo_data[i].volume > 0
          /\ \/ RLt(self.mp_tpo_data[i].price, self.mp_val_price)
             \/ RGt(self.mp_tpo_data[i].price, self.mp_vah_price)

(* ------------------------------------------------------------------ *)
(* Launch strategy                                                     *)
(* ------------------------------------------------------------------ *)

(* not x, for x a Decimal or None.                                         *)
Falsy(x) == x = None \/ x = Z(0)

(* Decimal.quantize(Decimal('0.0001')): to four places, ties to even.      *)
Quantize4(x) ==
    LET scaled == RMul(x, Z(10000))
        q == scaled[1] \div scaled[2]
        twice == 2 * (scaled[1] % scaled[2])
    IN  IF twice < scaled[2] THEN Rat(q, 10000)
        ELSE IF twice > scaled[2] THEN Rat(q + 1, 10000)
        ELSE Rat(q + (q % 2), 10000)

(* Mutant: the size from the stop distance alone, without the limit to     *)
(* the maximum position value.                                             *)
calculate_position_size_uncapped(s, signal) ==
    LET risk_per_unit == RAbs(RSub(signal.entry_price, signal.stop_loss))
    IN  IF RGt(signal.entry_price, Z(0)) /\ RGt(signal.stop_loss, Z(0))
           /\ RGt(risk_per_unit, Z(0))
        THEN RMax(Z(0), Quantize4(RDiv(RMul(s.account_balance,
                                            RDiv(max_single_position, Z(100))),
                                       risk_per_unit)))
        ELSE Z(0)

calculate_position_size(s, signal) ==
    LET max_position_value == RMul(s.account_balance, RDiv(max_single_position, Z(100)))
        entry_price == signal.entry_price
        stop_loss_price == signal.stop_loss
        risk_per_unit == RAbs(RSub(entry_price, stop_loss_price))
    IN  IF RGt(entry_price, Z(0)) /\ RGt(stop_loss_price, Z(0)) /\ RGt(risk_per_unit, Z(0))
        THEN LET risk_amount == RMul(s.account_balance, RDiv(max_single_position, Z(100)))
                 max_units == RDiv(max_position_value, entry_price)
                 position_size == RMin(RDiv(risk_amount, risk_per_unit), max_units)
             IN  RMax(Z(0), Quantize4(position_size))
        ELSE Z(0)

(* The wick of the last three samples over the body of the last two.       *)
calculate_wick_body_ratio(candles, rejection_type) ==
    IF Len(candles) < 2 THEN Z(0)
    ELSE LET current == candles[Len(candles)].price
             prev == candles[Len(candles) - 1].price
             body_size == RAbs(RSub(current, prev))
             last3 == LastN(candles, 3)
             wick_size == IF rejection_type = "high"
                          THEN RSub(MaxPrice(last3), RMax(current, prev))
                          ELSE RSub(RMin(current, prev), MinPrice(last3))
         IN  IF RGt(body_size, Z(0)) THEN RDiv(wick_size, body_size) ELSE Z(0)

(* A score that subtracts the whole base on a bias mismatch and does not   *)
(* clamp the result.                                                       *)
calculate_signal_confidence_unclamped(s, direction) ==
    LET aligned == \/ direction = "bullish" /\ s.current_bias >= 0
                   \/ direction = "bearish" /\ s.current_bias <= 0
    IN  IF s.enable_bias_filter /\ ~aligned THEN Rat(-1, 10) ELSE Rat(7, 10)

calculate_signal_confidence(s, direction) ==
    LET base == Rat(5, 10)
        c1 == IF ~s.enable_bias_filter THEN base
              ELSE IF direction = "bullish" /\ s.current_bias >= 0 THEN RAdd(base, Rat(2, 10))
              ELSE IF direction = "bearish" /\ s.current_bias <= 0 THEN RAdd(base, Rat(2, 10))
              ELSE RSub(base, Rat(1, 10))
        c2 == IF RLe(Z(1), s.volatility_ratio) /\ RLe(s.volatility_ratio, Z(3))
              THEN RAdd(c1, Rat(2, 10)) ELSE c1
        c3 == IF s.current_volume_ratio # None /\ RGt(s.current_volume_ratio, Rat(12, 10))
              THEN RAdd(c2, Rat(1, 10)) ELSE c2
    IN  RMin(Z(1), RMax(Z(0), c3))

(* The signals of this tick: a rejection at the launch high first, then a  *)
(* rejection at the launch low.                                            *)
detect_needle_formations(s) ==
    LET recent_prices == LastN(s.price_history, 10)
    IN  IF Len(recent_prices) < 5 \/ s.launch_high = None \/ s.launch_low = None THEN <<>>
        ELSE LET current_price == recent_prices[Len(recent_prices)].price
                 prev_price == recent_prices[Len(recent_prices) - 1].price
                 bearish ==
                    IF /\ RGe(current_price, RMul(s.launch_high, Rat(995, 1000)))
                       /\ RLt(current_price, prev_price)
                       /\ RGe(calculate_wick_body_ratio(recent_prices, "high"),
                              needle_body_ratio)
                    THEN << [direction |-> "sell",
                             level |-> s.launch_high,
                             confidence |-> calculate_signal_confidence(s, "bearish"),
                             entry_price |-> s.current_price,
                             stop_loss |-> RMul(s.launch_high, Rat(101, 100)),
                             take_profit |-> s.launch_low] >>
                    ELSE <<>>
                 bullish ==
                    IF /\ RLe(current_price, RMul(s.launch_low, Rat(1005, 1000)))
                       /\ RGt(current_price, prev_price)
                       /\ RGe(calculate_wick_body_ratio(recent_prices, "low"),
                              needle_body_ratio)
                    THEN << [direction |-> "buy",
                             level |-> s.launch_low,
                             confidence |-> calculate_signal_confidence(s, "bullish"),
                             entry_price |-> s.current_price,
                             stop_loss |-> RMul(s.launch_low, Rat(99, 100)),
                             take_profit |-> s.launch_high] >>
                    ELSE <<>>
             IN  bearish \o bullish

(* Mutant: a gate that looks at the confidence only.                       *)
validate_launch_signal_confidence_only(s, signal) ==
    ~RLt(signal.confidence, Rat(6, 10))

validate_launch_signal(s, signal) ==
    IF RLt(signal.confidence, Rat(6, 10)) THEN FALSE
    ELSE IF RLe(calculate_position_size(s, signal), Z(0)) THEN FALSE
    ELSE IF enable_volatility_filter /\ RLt(s.volatility_ratio, volatility_threshold)
         THEN FALSE
    ELSE TRUE

(* self.buy / self.sell with OrderType.MARKET; the connector returns the   *)
(* new order's id, and the cooldown clock restarts.                        *)
execute_launch_trade(w, signal) ==
    LET position_size == calculate_position_size(w.self, signal)
        id == w.conn.next_id
    IN  IF RLe(position_size, Z(0)) THEN w
        ELSE [w EXCEPT !.conn.next_id = id + 1,
                       !.out.orders = Append(@, [id |-> id, side |-> signal.direction,
                                                 type |-> "MARKET", price |-> None,
                                                 amount |-> position_size,
                                                 time |-> w.now]),
                       !.self.last_launch_trade = w.now,
                       !.self.total_launch_trades = @ + 1]

(* for signal in launch_signals: validate, then trade.                     *)
RECURSIVE TradeSignals(_, _, _)
TradeSignals(w, signals, i) ==
    IF i > Len(signals) THEN w
    ELSE IF validate_launch_signal(w.self, signals[i])
         THEN TradeSignals(execute_launch_trade(w, signals[i]), signals, i + 1)
    ELSE TradeSignals(w, signals, i + 1)

(* A check that does not look at the time of the last launch trade.        *)
check_launch_opportunities_no_cooldown(w) ==
    IF ~w.self.launch_range_confirmed \/ Falsy(w.self.launch_high) \/ Falsy(w.self.launch_low)
    THEN w
    ELSE TradeSignals(w, detect_needle_formations(w.self), 1)

check_launch_opportunities(w) ==
    IF ~w.self.launch_range_confirmed \/ Falsy(w.self.launch_high) \/ Falsy(w.self.launch_low)
    THEN w
    ELSE IF w.now - w.self.last_launch_trade < launch_cooldown_minutes THEN w
    ELSE TradeSignals(w, detect_needle_formations(w.self), 1)

monitor_launch_levels(w) ==
    LET s == w.self
        high == IF s.launch_high = None \/ RGt(s.current_price, s.launch_high)
                THEN s.current_price ELSE s.launch_high
        low == IF s.launch_low = None \/ RLt(s.current_price, s.launch_low)
               THEN s.current_price ELSE s.launch_low
        s1 == [s EXCEPT !.launch_high = high, !.launch_low = low]
    IN  IF Falsy(high) \/ Falsy(low) THEN [w EXCEPT !.self = s1]
        ELSE LET range_pct == RDiv(RSub(high, low), s.current_price)
             IN  IF RLe(launch_min_range_pct, range_pct) /\ RLe(range_pct, launch_max_range_pct)
                 THEN [w EXCEPT !.self = [s1 EXCEPT !.launch_range_confirmed = TRUE]]
                 ELSE [w EXCEPT !.self = s1]

(* datetime.now().time(): the minute of the day.                           *)
TimeOfDay(t) == t % 1440

(* A launch strategy that, inside the window, goes on from the levels to   *)
(* the signal scan.                                                        *)
execute_launch_strategy_scans_in_window(w) ==
    LET active == launch_time_start <= TimeOfDay(w.now) /\ TimeOfDay(w.now) <= launch_time_end
        w1 == [w EXCEPT !.self.launch_session_active = active]
    IN  IF active THEN check_launch_opportunities(monitor_launch_levels(w1))
        ELSE check_launch_opportunities(w1)

execute_launch_strategy(w) ==
    LET active == launch_time_start <= TimeOfDay(w.now) /\ TimeOfDay(w.now) <= launch_time_end
        w1 == [w EXCEPT !.self.launch_session_active = active]
    IN  IF active THEN monitor_launch_levels(w1) ELSE check_launch_opportunities(w1)

(* ------------------------------------------------------------------ *)
(* SpecLaunch: the launch strategy over the ticks that follow a        *)
(* session.  The strategy is constructed at 07:58 and sees the prices  *)
(* of one of LaunchSessions at 07:59 and 08:00, inside the window;     *)
(* every later tick appends a sample to the price history, as          *)
(* update_market_data does, and runs execute_launch_strategy.  The     *)
(* bias, the volatility ratio and the balance are what                 *)
(* calculate_technical_indicators and update_account_info left.        *)
(* ------------------------------------------------------------------ *)

LaunchMaxSamples == 6

LaunchStart == 478
LaunchSessions == { <<Z(100), Z(104)>>, <<Z(97), Rat(201, 2)>> }
LaunchPrices == {Z(97), Z(99), Z(100), Rat(201, 2), Z(102)}
LaunchSteps == {1, 30}
LaunchBiases == {-1, 1}
LaunchVolatilities == {Z(1), Z(2), Z(4)}

(* update_market_data: the mid price becomes current_price and a sample    *)
(* of the history.                                                         *)
ObservePrice(s, p, t) ==
    [s EXCEPT !.current_price = p,
              !.price_history = Append(@, [timestamp |-> t, price |-> p, volume |-> 0])]

LaunchTickWorld(s, c, o, p, t) ==
    execute_launch_strategy([World(ObservePrice(s, p, t), c, NoEnv, t) EXCEPT !.out = o])

RECURSIVE RunSession(_, _, _)
RunSession(s, script, i) ==
    IF i > Len(script) THEN s
    ELSE RunSession(LaunchTickWorld(s, InitConn, EmptyOut, script[i], LaunchStart + i).self,
                    script, i + 1)

(* A signal of this tick that passes validation, whatever the cooldown.    *)
Qualifies(s) ==
    /\ s.launch_range_confirmed
    /\ \E i \in 1..Len(detect_needle_formations(s)) :
          validate_launch_signal(s, detect_needle_formations(s)[i])

LaunchInit ==
    /\ \E b \in LaunchBiases, v \in LaunchVolatilities, session \in LaunchSessions :
          self = RunSession([InitSelf EXCEPT !.current_bias = b,
                                             !.volatility_ratio = v,
                                             !.account_balance = Z(1000),
                                             !.last_launch_trade = LaunchStart - 60,
                                             !.last_mp_update = LaunchStart],
                            session, 1)
    /\ conn = InitConn
    /\ out = EmptyOut
    /\ now = LaunchStart + 2
    /\ last = [op |-> "init"]

LaunchTick(p, dt) ==
    /\ Len(self.price_history) < LaunchMaxSamples
    /\ \E w \in {LaunchTickWorld(self, conn, out, p, now + dt)} :
          /\ self' = w.self
          /\ conn' = w.conn
          /\ out' = w.out
          /\ last' = [op |-> "execute_launch_strategy",
                      qualifying |-> Qualifies(w.self),
                      since_last_trade |-> (now + dt) - self.last_launch_trade,
                      orders_before |-> Len(out.orders)]
    /\ now' = now + dt

LaunchNext == \E p \in LaunchPrices, dt \in LaunchSteps : LaunchTick(p, dt)

SpecLaunch == LaunchInit /\ [][LaunchNext]_vars

(* ------------------------------------------------------------------ *)
(* Claims about the launch strategy                                    *)
(* ------------------------------------------------------------------ *)

LaunchOrders == SelectSeq(out.orders, LAMBDA o : o.type = "MARKET")

(* C7: any two launch orders are at least launch_cooldown_minutes apart    *)
(* (so no tick submits two), and a tick that shows a qualifying rejection  *)
(* pattern submits no order when the last launch trade is less than        *)
(* launch_cooldown_minutes old, and exactly one otherwise.                 *)
C7_CooldownOneTrade ==
    /\ \A i, j \in 1..Len(LaunchOrders) :
          i < j => LaunchOrders[j].time - LaunchOrders[i].time >= launch_cooldown_minutes
    /\ last.op = "execute_launch_strategy" =>
          /\ Len(out.orders) <= last.orders_before + 1
          /\ last.qualifying /\ last.since_last_trade < launch_cooldown_minutes
                => Len(out.orders) = last.orders_before
          /\ last.qualifying /\ last.since_last_trade >= launch_cooldown_minutes
                => Len(out.orders) = last.orders_before + 1

(* A second qualifying pattern one minute after a launch trade: the tick   *)
(* submits nothing and the trade count stays at one.                       *)
C7_Witness ==
    /\ last.op = "execute_launch_strategy"
    /\ last.qualifying
    /\ last.since_last_trade = 1
    /\ Len(LaunchOrders) = 1
    /\ self.total_launch_trades = 1

(* ------------------------------------------------------------------ *)
(* SpecConfidence: calculate_signal_confidence on its own, over every  *)
(* combination of the attributes it reads.  enable_bias_filter is a    *)
(* class attribute (True unless overridden); current_volume_ratio is   *)
(* an attribute no method of the class assigns, None standing for its  *)
(* absence.                                                            *)
(* ------------------------------------------------------------------ *)

ConfidenceDirections == {"bullish", "bearish"}
ConfidenceBiases == {-1, 0, 1}
ConfidenceVolatilities == {Z(0), Rat(99, 100), Z(1), Z(2), Z(3), Rat(301, 100), Z(1000)}
ConfidenceVolumeRatios == {None, Z(0), Rat(12, 10), Rat(121, 100), Z(50)}

ConfidenceInit ==
    /\ \E f \in BOOLEAN, b \in ConfidenceBiases, v \in ConfidenceVolatilities,
          r \in ConfidenceVolumeRatios :
          self = [InitSelf EXCEPT !.enable_bias_filter = f,
                                  !.current_bias = b,
                                  !.volatility_ratio = v,
                                  !.current_volume_ratio = r]
    /\ conn = InitConn
    /\ out = EmptyOut
    /\ now = 0
    /\ last = [op |-> "init"]

ConfidenceCall(direction) ==
    /\ last' = [op |-> "calculate_signal_confidence",
                direction |-> direction,
                confidence |-> calculate_signal_confidence(self, direction)]
    /\ UNCHANGED <<self, conn, out, now>>

ConfidenceNext == \E direction \in ConfidenceDirections : ConfidenceCall(direction)

SpecConfidence == ConfidenceInit /\ [][ConfidenceNext]_vars

(* C8: calculate_signal_confidence returns a value in [0, 1] for every     *)
(* combination of direction, bias filter flag, bias, volatility ratio and  *)
(* volume ratio.                                                           *)
C8_ConfidenceInUnitInterval ==
    last.op = "calculate_signal_confidence" =>
        /\ RLe(Z(0), last.confidence)
        /\ RLe(last.confidence, Z(1))

(* Every bonus at once: an aligned bias, a volatility ratio inside [1, 3]  *)
(* and a volume ratio above 1.2 give exactly 1.                            *)
C8_Witness ==
    /\ last.op = "calculate_signal_confidence"
    /\ last.confidence = Z(1)
    /\ self.enable_bias_filter
    /\ self.current_volume_ratio # None

(* ------------------------------------------------------------------ *)
(* Risk gate                                                           *)
(* ------------------------------------------------------------------ *)

(* w.env.balance_empty: get_balance_df() has no rows; w.env.total_balance: *)
(* the USDT value of its rows; w.env.active_count and w.env.exposure: the  *)
(* number of rows of active_orders_df() and the sum of Amount * Price.     *)
update_account_info(w) ==
    LET s == w.self
        balance == IF w.env.balance_empty THEN s.account_balance ELSE w.env.total_balance
        s1 == [s EXCEPT !.account_balance = balance,
                        !.active_trades_count = w.env.active_count]
    IN  IF w.env.active_count > 0
        THEN [w EXCEPT !.self =
                 [s1 EXCEPT !.total_exposure = w.env.exposure,
                            !.current_portfolio_risk =
                                IF RGt(balance, Z(0))
                                THEN RMul(RDiv(w.env.exposure, balance), Z(100))
                                ELSE @]]
        ELSE [w EXCEPT !.self = [s1 EXCEPT !.total_exposure = Z(0),
                                           !.current_portfolio_risk = Z(0)]]

(* The first words of each restriction_reason; the figures that follow     *)
(* them in the message are left out.                                       *)
ReasonBalance == "Balance below minimum"
ReasonPortfolioRisk == "Portfolio risk too high"
ReasonActiveTrades == "Too many active trades"
ReasonConsecutiveLosses == "Too many consecutive losses"
ReasonDailyLoss == "Daily loss limit exceeded"
ReasonDrawdown == "Emergency drawdown stop"

Deny(w, reason) ==
    [w |-> [w EXCEPT !.self.can_trade = FALSE, !.self.restriction_reason = reason],
     ok |-> FALSE]

daily_loss_pct(s) == RMul(RDiv(RAbs(s.daily_pnl), s.account_balance), Z(100))

(* A gate that looks at the portfolio risk before the balance.             *)
RiskChecksPortfolioFirst(w) ==
    LET s == w.self
    IN  IF RGt(s.current_portfolio_risk, max_portfolio_risk) THEN Deny(w, ReasonPortfolioRisk)
        ELSE IF RLt(s.account_balance, min_balance_threshold) THEN Deny(w, ReasonBalance)
        ELSE IF s.active_trades_count >= max_concurrent_trades
             THEN Deny(w, ReasonActiveTrades)
        ELSE IF s.consecutive_losses >= max_consecutive_losses
             THEN Deny(w, ReasonConsecutiveLosses)
        ELSE IF RLt(s.daily_pnl, Z(0)) /\ RGt(daily_loss_pct(s), daily_loss_limit)
             THEN Deny(w, ReasonDailyLoss)
        ELSE IF RGt(s.max_drawdown, emergency_stop_drawdown) THEN Deny(w, ReasonDrawdown)
        ELSE [w |-> [w EXCEPT !.self.can_trade = TRUE, !.self.restriction_reason = ""],
              ok |-> TRUE]

(* The six checks on the refreshed account facts: the first that fails     *)
(* denies; when none does, can_trade is set and the reason cleared.        *)
RiskChecks(w) ==
    LET s == w.self
    IN  IF RLt(s.account_balance, min_balance_threshold) THEN Deny(w, ReasonBalance)
        ELSE IF RGt(s.current_portfolio_risk, max_portfolio_risk)
             THEN Deny(w, ReasonPortfolioRisk)
        ELSE IF s.active_trades_count >= max_concurrent_trades
             THEN Deny(w, ReasonActiveTrades)
        ELSE IF s.consecutive_losses >= max_consecutive_losses
             THEN Deny(w, ReasonConsecutiveLosses)
        ELSE IF RLt(s.daily_pnl, Z(0)) /\ RGt(daily_loss_pct(s), daily_loss_limit)
             THEN Deny(w, ReasonDailyLoss)
        ELSE IF RGt(s.max_drawdown, emergency_stop_drawdown) THEN Deny(w, ReasonDrawdown)
        ELSE [w |-> [w EXCEPT !.self.can_trade = TRUE, !.self.restriction_reason = ""],
              ok |-> TRUE]

(* A gate that, once every check passes, returns True but leaves can_trade *)
(* and restriction_reason as the last cycle set them.                      *)
risk_management_check_sticky(w) ==
    LET r == RiskChecks(update_account_info(w))
    IN  IF r.ok THEN [w |-> update_account_info(w), ok |-> TRUE] ELSE r

(* Returns the world after the check and the value returned.               *)
risk_management_check(w) == RiskChecks(update_account_info(w))

(* ------------------------------------------------------------------ *)
(* SpecRisk: the risk gate, cycle after cycle.  Each cycle the         *)
(* connector answers with a balance table and a table of active        *)
(* orders.  consecutive_losses, daily_pnl and max_drawdown are         *)
(* attributes the gate reads and does not write; they are drawn once,  *)
(* so that each of the six checks can be the first to fail.            *)
(* ------------------------------------------------------------------ *)

RiskBalances == {Z(49), Z(50), Z(1000)}
RiskOrders == { [active_count |-> 0, exposure |-> Z(0)],
                [active_count |-> 1, exposure |-> Z(120)],
                [active_count |-> 1, exposure |-> Z(121)],
                [active_count |-> 10, exposure |-> Z(6)] }
RiskLosses == {0, 4, 5}
RiskDailyPnls == {Z(0), Rat(-5, 2), Z(-3), Z(3)}
RiskDrawdowns == {Z(0), Z(20), Z(21)}

RiskEnvs ==
    { [balance_empty |-> FALSE, total_balance |-> b,
       active_count |-> o.active_count, exposure |-> o.exposure] :
         b \in RiskBalances, o \in RiskOrders }
    \cup
    { [balance_empty |-> TRUE, total_balance |-> Z(0),
       active_count |-> o.active_count, exposure |-> o.exposure] : o \in RiskOrders }

RiskInit ==
    /\ \E l \in RiskLosses, p \in RiskDailyPnls, d \in RiskDrawdowns :
          self = [InitSelf EXCEPT !.consecutive_losses = l,
                                  !.daily_pnl = p,
                                  !.max_drawdown = d]
    /\ conn = InitConn
    /\ out = EmptyOut
    /\ now = 0
    /\ last = [op |-> "init"]

(* The head of on_tick: update_account_info, then risk_management_check.   *)
RiskCycle(e) ==
    /\ \E r \in {risk_management_check(update_account_info(World(self, conn, e, now)))} :
          /\ self' = r.w.self
          /\ last' = [op |-> "risk_management_check",
                      ok |-> r.ok,
                      env |-> e,
                      denied_before |-> ~self.can_trade]
    /\ UNCHANGED <<conn, out, now>>

RiskNext == \E e \in RiskEnvs : RiskCycle(e)

SpecRisk == RiskInit /\ [][RiskNext]_vars

(* ------------------------------------------------------------------ *)
(* Claims about the risk gate                                          *)
(* ------------------------------------------------------------------ *)

FailsBalance == RLt(self.account_balance, min_balance_threshold)
FailsPortfolioRisk == RGt(self.current_portfolio_risk, max_portfolio_risk)
FailsActiveTrades == self.active_trades_count >= max_concurrent_trades
FailsConsecutiveLosses == self.consecutive_losses >= max_consecutive_losses
FailsDailyLoss ==
    /\ RLt(self.daily_pnl, Z(0))
    /\ RGt(self.account_balance, Z(0))
    /\ RGt(RMul(RAbs(self.daily_pnl), Z(100)), RMul(daily_loss_limit, self.account_balance))
FailsDrawdown == RGt(self.max_drawdown, emergency_stop_drawdown)

(* The checks in the order balance, portfolio risk, concurrent trades,     *)
(* consecutive losses, daily loss, drawdown.                               *)
Failing ==
    <<FailsBalance, FailsPortfolioRisk, FailsActiveTrades,
      FailsConsecutiveLosses, FailsDailyLoss, FailsDrawdown>>

Reasons ==
    <<ReasonBalance, ReasonPortfolioRisk, ReasonActiveTrades,
      ReasonConsecutiveLosses, ReasonDailyLoss, ReasonDrawdown>>

(* C9: after risk_management_check the restriction_reason is that of the   *)
(* first failing check in the order balance, portfolio risk, concurrent    *)
(* trades, consecutive losses, daily loss, drawdown; with the balance      *)
(* below the minimum and the portfolio risk above its maximum at once, it  *)
(* is the balance reason.                                                  *)
C9_FirstFailingCheckWins ==
    last.op = "risk_management_check" =>
        /\ \A k \in 1..6 :
              (Failing[k] /\ \A j \in 1..(k - 1) : ~Failing[j])
                 => self.restriction_reason = Reasons[k]
        /\ FailsBalance /\ FailsPortfolioRisk => self.restriction_reason = ReasonBalance

(* A cycle with the balance below the minimum and the portfolio risk above *)
(* its maximum.                                                            *)
C9_Witness ==
    /\ last.op = "risk_management_check"
    /\ FailsBalance
    /\ FailsPortfolioRisk
    /\ self.restriction_reason = ReasonBalance

(* C10: the gate's result depends only on the cycle's facts: can_trade is  *)
(* true, with an empty restriction_reason and a True return, exactly when  *)
(* none of the six checks fails on the account facts of this cycle,        *)
(* whatever an earlier cycle decided.                                      *)
C10_GateDependsOnCycleOnly ==
    last.op = "risk_management_check" =>
        /\ self.can_trade <=> \A k \in 1..6 : ~Failing[k]
        /\ self.can_trade <=> self.restriction_reason = ""
        /\ last.ok = self.can_trade
        /\ self.active_trades_count = last.env.active_count
        /\ ~last.env.balance_empty => self.account_balance = last.env.total_balance

(* A cycle that passes every check right after a cycle that was denied.    *)
C10_Witness ==
    /\ last.op = "risk_management_check"
    /\ last.denied_before
    /\ self.can_trade
    /\ self.restriction_reason = ""

(* ------------------------------------------------------------------ *)
(* Market data and indicators                                          *)
(* ------------------------------------------------------------------ *)

(* The sum of the prices of data[lo..hi], by halving the range.            *)
RECURSIVE SumPricesIn(_, _, _)
SumPricesIn(data, lo, hi) ==
    IF lo > hi THEN Z(0)
    ELSE IF lo = hi THEN data[lo].price
    ELSE With(SumPricesIn(data, lo, (lo + hi) \div 2), LAMBDA a :
         With(SumPricesIn(data, ((lo + hi) \div 2) + 1, hi), LAMBDA b : RAdd(a, b)))

(* np.mean(prices[lo..hi])                                                 *)
MeanPrice(data, lo, hi) == RDiv(SumPricesIn(data, lo, hi), Z(hi - lo + 1))

(* The sum of abs(prices[i] - prices[i-1]) for i = lo..hi, by halving the  *)
(* range.                                                                  *)
RECURSIVE SumMovesIn(_, _, _)
SumMovesIn(data, lo, hi) ==
    IF lo > hi THEN Z(0)
    ELSE IF lo = hi THEN RAbs(RSub(data[lo].price, data[lo - 1].price))
    ELSE With(SumMovesIn(data, lo, (lo + hi) \div 2), LAMBDA a :
         With(SumMovesIn(data, ((lo + hi) \div 2) + 1, hi), LAMBDA b : RAdd(a, b)))

(* np.mean(high_low[-atr_period:]): the mean of the last atr_period moves, *)
(* of all the moves when there are fewer.                                  *)
MeanLastMoves(data) ==
    LET n == Len(data)
        first == IF n - 1 > atr_period THEN n - atr_period + 1 ELSE 2
    IN  RDiv(SumMovesIn(data, first, n), Z(n - first + 1))

Sign(x) == IF RGt(x, Z(0)) THEN 1 ELSE IF RLt(x, Z(0)) THEN -1 ELSE 0

(* prices = the last 100 samples; nothing is computed on fewer than 20.    *)
IndicatorsOf(s, prices) ==
    LET n == Len(prices)
        atr == MeanLastMoves(prices)
        sma_20 == MeanPrice(prices, n - 19, n)
        price_change ==
            LET recent_avg == MeanPrice(prices, n - 9, n)
                older_avg == MeanPrice(prices, n - trend_period + 1, n - 10)
            IN  RDiv(RSub(recent_avg, older_avg), older_avg)
    IN  [s EXCEPT
           !.sma_20 = sma_20,
           !.sma_50 = IF n >= 50 THEN MeanPrice(prices, n - 49, n) ELSE @,
           !.atr_value = atr,
           !.volatility_ratio =
               IF RGt(s.current_price, Z(0))
               THEN RMul(RDiv(atr, s.current_price), Z(1000)) ELSE @,
           !.trend_direction =
               IF n >= trend_period
               THEN (IF RGt(price_change, trend_strength_threshold) THEN 1
                     ELSE IF RLt(price_change, RSub(Z(0), trend_strength_threshold)) THEN -1
                     ELSE 0)
               ELSE @,
           !.price_momentum =
               RDiv(RSub(prices[n].price, prices[n - 9].price), prices[n - 9].price),
           !.current_bias = Sign(RSub(s.current_price, sma_20))]

calculate_technical_indicators(s) ==
    With(LastN(s.price_history, 100), LAMBDA prices :
        IF Len(prices) < 20 THEN s ELSE IndicatorsOf(s, prices))

(* w.env.fault names what fails in this tick: "price", get_mid_price       *)
(* raises and update_market_data ends in its handler; "volume", the order  *)
(* book read raises and get_current_volume returns 0.0; "indicators",      *)
(* calculate_technical_indicators ends in its handler before it assigns    *)
(* anything; "none".                                                       *)
get_current_volume(w) == IF w.env.fault = "volume" THEN 0 ELSE w.env.volume

(* The append without the eviction of the oldest samples.                  *)
AppendSampleUnbounded(history, sample) == Append(history, sample)

AppendSample(history, sample) == LastN(Append(history, sample), max_price_history)

update_market_data(w) ==
    IF w.env.fault = "price" THEN w
    ELSE IF w.env.mid_price = None \/ RLe(w.env.mid_price, Z(0)) THEN w
    ELSE With([w.self EXCEPT
                  !.current_price = w.env.mid_price,
                  !.price_history =
                      AppendSample(@, [timestamp |-> w.now,
                                       price |-> w.env.mid_price,
                                       volume |-> get_current_volume(w)])],
              LAMBDA s1 :
                 [w EXCEPT !.self = IF w.env.fault = "indicators" THEN s1
                                    ELSE calculate_technical_indicators(s1)])

(* ------------------------------------------------------------------ *)
(* The tick                                                            *)
(* ------------------------------------------------------------------ *)

(* Mutant: max_drawdown is overwritten with the current drawdown.           *)
update_performance_metrics_current_drawdown(s) ==
    IF s.peak_balance # None /\ RGt(s.account_balance, Z(0))
    THEN [s EXCEPT !.max_drawdown =
             RMul(RDiv(RSub(s.peak_balance, s.account_balance), s.peak_balance), Z(100))]
    ELSE [s EXCEPT !.peak_balance = s.account_balance]

update_performance_metrics(s) ==
    LET s1 == IF s.total_trades > 0
              THEN [s EXCEPT !.win_rate =
                       RMul(Rat(s.winning_trades, s.total_trades), Z(100))]
              ELSE s
    IN  IF s1.peak_balance # None /\ RGt(s1.account_balance, Z(0))
        THEN [s1 EXCEPT !.max_drawdown =
                 RMax(@, RMul(RDiv(RSub(s1.peak_balance, s1.account_balance),
                                   s1.peak_balance), Z(100)))]
        ELSE [s1 EXCEPT !.peak_balance = s1.account_balance]

(* log_performance_data appends a line to the log file; of the strategy's  *)
(* state only last_status_update moves.                                    *)
LogStatus(w) ==
    IF w.now - w.self.last_status_update > status_update_interval
    THEN [w EXCEPT !.self.last_status_update = w.now]
    ELSE w

(* The part of on_tick that follows a passed risk check.  steps names the  *)
(* methods on_tick has called so far, in order.                            *)
TradeAndReport(w, steps) ==
    With(IF enable_market_profile THEN update_market_profile(w) ELSE w, LAMBDA w3 :
    With(IF enable_grid /\ w3.self.can_trade THEN execute_grid_strategy(w3) ELSE w3,
         LAMBDA w4 :
    With(IF enable_launch_strategy /\ w4.self.can_trade
         THEN execute_launch_strategy(w4) ELSE w4, LAMBDA w5 :
    With([w5 EXCEPT !.self = update_performance_metrics(w5.self)], LAMBDA w6 :
        [w |-> LogStatus(w6),
         steps |-> steps
                   \o (IF enable_market_profile THEN <<"update_market_profile">> ELSE <<>>)
                   \o (IF enable_grid /\ w3.self.can_trade
                       THEN <<"execute_grid_strategy">> ELSE <<>>)
                   \o (IF enable_launch_strategy /\ w4.self.can_trade
                       THEN <<"execute_launch_strategy">> ELSE <<>>)
                   \o <<"update_performance_metrics">>]))))

(* update_market_data, update_account_info and risk_management_check, in   *)
(* that order: the world after them and what the check returned.           *)
MarketAccountGate(w) ==
    With(update_market_data(w), LAMBDA w1 :
    With(update_account_info(w1), LAMBDA w2 : risk_management_check(w2)))

GateSteps == <<"update_market_data", "update_account_info", "risk_management_check">>

(* An on_tick in which a failure of update_market_data reaches on_tick's   *)
(* own handler: the tick ends there.                                       *)
on_tick_feed_error_ends_tick(w) ==
    IF w.env.fault # "none" THEN [w |-> w, steps |-> <<"update_market_data">>]
    ELSE With(MarketAccountGate(w), LAMBDA r :
            IF ~r.ok THEN [w |-> r.w, steps |-> GateSteps]
            ELSE TradeAndReport(r.w, GateSteps))

(* An on_tick that goes on to the grid and the launch strategy whatever    *)
(* the gate answered.                                                      *)
on_tick_ungated(w) ==
    With(MarketAccountGate(w), LAMBDA r :
    With(execute_grid_strategy(r.w), LAMBDA w4 :
        [w |-> execute_launch_strategy(w4),
         steps |-> GateSteps \o <<"execute_grid_strategy", "execute_launch_strategy">>]))

(* Mutant: a denial cancels the tracked grid orders before the tick ends.  *)
on_tick_denial_cancels(w) ==
    With(MarketAccountGate(w), LAMBDA r :
        IF ~r.ok THEN [w |-> cancel_all_grid_orders(r.w), steps |-> GateSteps]
        ELSE TradeAndReport(r.w, GateSteps))

on_tick(w) ==
    With(MarketAccountGate(w), LAMBDA r :
        IF ~r.ok THEN [w |-> r.w, steps |-> GateSteps]
        ELSE TradeAndReport(r.w, GateSteps))

(* ------------------------------------------------------------------ *)
(* SpecTick: on_tick, tick after tick, one minute apart.  The strategy *)
(* is constructed at 01:40 and first runs TickWarmUpLen ticks in which *)
(* the connector reports no balance yet (the risk gate denies, only    *)
(* the market data moves) over one of the price series of TickWarmUps. *)
(* From then on every tick draws what the connector answers: the mid   *)
(* price (or none), what fails, and the account.                       *)
(* ------------------------------------------------------------------ *)

TickMaxTicks == 3

TickStart == 100
TickWarmUpLen == 20
TickWarmUps ==
    { [i \in 1..TickWarmUpLen |-> Z(100)],
      [i \in 1..TickWarmUpLen |-> IF i % 2 = 0 THEN Z(101) ELSE Z(100)] }

(* What get_mid_price returns and which call of update_market_data raises. *)
TickFeeds ==
    { <<None, "none">>, <<Z(0), "none">>, <<Z(100), "price">>,
      <<Z(100), "none">>, <<Z(106), "volume">>, <<Z(106), "indicators">> }

(* Total balance reported by the connector: above and below                *)
(* min_balance_threshold.                                                  *)
TickBalances == { Z(1000), Z(49) }

TickEnv(f, b) ==
    [mid_price |-> f[1], fault |-> f[2], volume |-> 1,
     balance_empty |-> FALSE, total_balance |-> b,
     usdt_avail |-> b, base_avail |-> Z(10),
     active_count |-> 0, exposure |-> Z(0)]

WarmUpEnv(p) ==
    [mid_price |-> p, fault |-> "none", volume |-> 1,
     balance_empty |-> TRUE, total_balance |-> Z(0), usdt_avail |-> Z(0),
     base_avail |-> Z(0), active_count |-> 0, exposure |-> Z(0)]

(* The state after the warm-up ticks over script.  In each of the first    *)
(* TickWarmUpLen - 1 of them on_tick appends the sample and sets           *)
(* current_price (indicators wait for 20 samples), finds no balance and    *)
(* denies on the balance check; the last one is run here.                  *)
WarmUpHistory(script) ==
    [i \in 1..(TickWarmUpLen - 1) |->
        [timestamp |-> TickStart + i, price |-> script[i], volume |-> 1]]

WarmUp(script) ==
    on_tick(World([InitSelf EXCEPT !.last_launch_trade = TickStart - 60,
                                   !.last_mp_update = TickStart,
                                   !.last_status_update = TickStart,
                                   !.price_history = WarmUpHistory(script),
                                   !.current_price = script[TickWarmUpLen - 1],
                                   !.can_trade = FALSE,
                                   !.restriction_reason = ReasonBalance],
                  InitConn, WarmUpEnv(script[TickWarmUpLen]),
                  TickStart + TickWarmUpLen)).w.self

TickInit ==
    /\ \E script \in TickWarmUps : self = WarmUp(script)
    /\ conn = InitConn
    /\ out = EmptyOut
    /\ now = TickStart + TickWarmUpLen
    /\ last = [op |-> "init"]

Tick(f, b) ==
    /\ now + 1 <= TickStart + TickWarmUpLen + TickMaxTicks
    /\ \E e \in {TickEnv(f, b)} :
       \E r \in {on_tick(World(self, conn, e, now + 1))} :
          /\ self' = r.w.self
          /\ conn' = r.w.conn
          /\ out' = r.w.out
          /\ last' = [op |-> "on_tick", steps |-> r.steps, env |-> e, before |-> self]
    /\ now' = now + 1

TickNext == \E f \in TickFeeds, b \in TickBalances : Tick(f, b)

SpecTick == TickInit /\ [][TickNext]_vars

(* C11: a tick whose risk check leaves can_trade false places no order,   *)
(* neither a grid limit order nor a launch market order.                   *)
C11_DeniedTickPlacesNoOrder ==
    (last.op = "on_tick" /\ ~self.can_trade) => out.orders = <<>>

(* A denied tick on a moving market with no grid yet: the grid strategy,   *)
(* had it run, would have built the grid at the current price.             *)
C11_Witness ==
    /\ last.op = "on_tick"
    /\ ~self.can_trade
    /\ self.restriction_reason # ""
    /\ RGt(self.current_price, Z(0))
    /\ RGt(self.atr_value, Z(0))
    /\ ~self.grid_initialized
    /\ out.orders = <<>>

(* The positions in steps at which on_tick called the named method.        *)
CallsOf(steps, name) == { i \in DOMAIN steps : steps[i] = name }

TradingSteps == { "execute_grid_strategy", "execute_launch_strategy" }

(* C12: every tick calls risk_management_check, and calls it before any    *)
(* call of the grid or the launch strategy, also when the price feed, the  *)
(* volume read or the indicator computation fails in that tick.            *)
C12_GateBeforeTrading ==
    last.op = "on_tick" =>
        /\ CallsOf(last.steps, "risk_management_check") # {}
        /\ \A j \in DOMAIN last.steps :
              last.steps[j] \in TradingSteps =>
                  \E i \in CallsOf(last.steps, "risk_management_check") : i < j

(* A tick in which market data failed (the feed raised or returned         *)
(* nothing, the volume read raised, the indicators raised) and in which    *)
(* the gate passed and the grid and launch strategies ran.                 *)
C12_Witness ==
    /\ last.op = "on_tick"
    /\ \/ last.env.fault # "none"
       \/ last.env.mid_price = None
    /\ CallsOf(last.steps, "risk_management_check") # {}
    /\ CallsOf(last.steps, "execute_grid_strategy") # {}
    /\ CallsOf(last.steps, "execute_launch_strategy") # {}

(* Every sample of the history carries the same price.                     *)
FlatHistory(history) ==
    \A i \in DOMAIN history : history[i].price = history[1].price

(* C14: on a flat price series of at least 20 samples, a tick that the     *)
(* gate permits leaves atr_value = 0 and volatility_ratio = 0 and a grid   *)
(* built with grid_spacing = grid_base_price * grid_min_spread > 0.        *)
C14_FlatSeriesBuildsMinSpacingGrid ==
    ( /\ last.op = "on_tick"
      /\ last.env.fault = "none"
      /\ last.env.mid_price # None
      /\ RGt(last.env.mid_price, Z(0))
      /\ Len(self.price_history) >= 20
      /\ FlatHistory(self.price_history)
      /\ self.can_trade )
    => /\ self.atr_value = Z(0)
       /\ self.volatility_ratio = Z(0)
       /\ self.grid_initialized
       /\ self.grid_spacing = RMul(self.grid_base_price, grid_min_spread)
       /\ RGt(self.grid_spacing, Z(0))

(* The feed gave no usable price: get_mid_price returned nothing or a      *)
(* price that is not positive.                                             *)
NoPrice(e) == e.fault = "none" /\ (e.mid_price = None \/ RLe(e.mid_price, Z(0)))

IndicatorFields ==
    { "sma_20", "sma_50", "atr_value", "volatility_ratio", "trend_direction",
      "price_momentum", "current_bias" }

(* C16: when the feed returns nothing or a non-positive price, the cycle   *)
(* is skipped: no sample is appended, the indicators are not recomputed,   *)
(* and neither the grid nor the launch strategy acts on the stale price.   *)
C16_NoPriceSkipsCycle ==
    (last.op = "on_tick" /\ NoPrice(last.env)) =>
        /\ self.price_history = last.before.price_history
        /\ \A f \in IndicatorFields : self[f] = last.before[f]
        /\ \A j \in DOMAIN last.steps : last.steps[j] \notin TradingSteps
        /\ out.orders = <<>>

(* ------------------------------------------------------------------ *)
(* SpecSession: the launch strategy across the session window and into *)
(* the next day.  The strategy is constructed at 07:56, inside the     *)
(* window of the first day; every tick appends a sample, as            *)
(* update_market_data does, and runs execute_launch_strategy, one      *)
(* minute or seventeen hours after the tick before.  last carries what *)
(* the tick found and did, and the session of the day as the window    *)
(* [launch_time_start, launch_time_end) delimits it.                   *)
(* ------------------------------------------------------------------ *)

SessionMaxSamples == 5

SessionStart == 476
SessionPrices == {Z(940), Z(980), Z(997), Z(998), Z(1000)}
SessionSteps == {1, 1020}

(* The window as a half-open interval of the day.                          *)
InWindow(t) == launch_time_start <= TimeOfDay(t) /\ TimeOfDay(t) < launch_time_end

(* The tick at t opens a session: the tick before it, at t0, was outside   *)
(* the window or on another day.                                           *)
OpensSession(t0, t) == InWindow(t) /\ (~InWindow(t0) \/ t0 \div 1440 # t \div 1440)

(* The session after a tick at t with price p: its high and low since the  *)
(* window was entered and its range as monitor_launch_levels measures it,  *)
(* kept as they were at the last tick inside the window.                   *)
SessionAfter(session, t0, t, p) ==
    IF ~InWindow(t) THEN session
    ELSE LET fresh == session = None \/ OpensSession(t0, t)
             high == IF fresh \/ RGt(p, session.high) THEN p ELSE session.high
             low == IF fresh \/ RLt(p, session.low) THEN p ELSE session.low
         IN  [high |-> high, low |-> low, range |-> RDiv(RSub(high, low), p)]

(* check_launch_opportunities gets as far as detect_needle_formations.     *)
Scans(s, t) ==
    /\ ~(launch_time_start <= TimeOfDay(t) /\ TimeOfDay(t) <= launch_time_end)
    /\ s.launch_range_confirmed
    /\ ~Falsy(s.launch_high)
    /\ ~Falsy(s.launch_low)
    /\ t - s.last_launch_trade >= launch_cooldown_minutes

SessionInit ==
    /\ self = [InitSelf EXCEPT !.current_bias = -1,
                               !.volatility_ratio = Z(2),
                               !.account_balance = Z(1000),
                               !.last_launch_trade = SessionStart - 60,
                               !.last_mp_update = SessionStart]
    /\ conn = InitConn
    /\ out = EmptyOut
    /\ now = SessionStart
    /\ last = [op |-> "init", session |-> None]

SessionTick(p, dt) ==
    /\ Len(self.price_history) < SessionMaxSamples
    /\ \E w \in {LaunchTickWorld(self, conn, out, p, now + dt)} :
          /\ self' = w.self
          /\ conn' = w.conn
          /\ out' = w.out
          /\ last' = [op |-> "execute_launch_strategy",
                      before |-> self,
                      previous_tick |-> now,
                      scanned |-> Scans(self, now + dt),
                      orders_before |-> Len(out.orders),
                      session |-> SessionAfter(last.session, now, now + dt, p)]
    /\ now' = now + dt

SessionNext == \E p \in SessionPrices, dt \in SessionSteps : SessionTick(p, dt)

SpecSession == SessionInit /\ [][SessionNext]_vars

(* ------------------------------------------------------------------ *)
(* Claims about the session                                            *)
(* ------------------------------------------------------------------ *)

RangeInBand(r) == RLe(launch_min_range_pct, r) /\ RLe(r, launch_max_range_pct)

(* C13: if the range of the session when the window is left lies outside   *)
(* [launch_min_range_pct, launch_max_range_pct], then after the window     *)
(* launch_range_confirmed is false and no tick scans for a signal or       *)
(* trades, whatever ranges the session went through.                       *)
C13_OutOfBandSessionNeverScans ==
    ( /\ last.op = "execute_launch_strategy"
      /\ ~InWindow(now)
      /\ last.session # None
      /\ ~RangeInBand(last.session.range) )
    => /\ ~self.launch_range_confirmed
       /\ ~last.scanned
       /\ Len(out.orders) = last.orders_before

(* C18: the tick that enters the window for a new day's session resets    *)
(* launch_high and launch_low to the current price and starts the range    *)
(* confirmation afresh; nothing of an earlier session carries over.        *)
C18_NewSessionResetsLevels ==
    ( /\ last.op = "execute_launch_strategy"
      /\ OpensSession(last.previous_tick, now) )
    => /\ self.launch_high = self.current_price
       /\ self.launch_low = self.current_price
       /\ ~self.launch_range_confirmed

(* C19: the window is [launch_time_start, launch_time_end): a tick at      *)
(* exactly launch_time_start is inside it, a tick at exactly               *)
(* launch_time_end is outside it and leaves the session high and low as    *)
(* they were.                                                              *)
C19_WindowIsHalfOpen ==
    last.op = "execute_launch_strategy" =>
        /\ TimeOfDay(now) = launch_time_start => self.launch_session_active
        /\ TimeOfDay(now) = launch_time_end =>
              /\ ~self.launch_session_active
              /\ self.launch_high = last.before.launch_high
              /\ self.launch_low = last.before.launch_low

(* The tick submitted an order.                                            *)
Traded == Len(out.orders) > last.orders_before

(* C20: a launch trade happens only in a tick outside the window, with     *)
(* launch_range_confirmed true and launch_high and launch_low both set     *)
(* when the tick began; a tick inside the window neither scans nor trades. *)
C20_TradesOnlyAfterConfirmedSession ==
    last.op = "execute_launch_strategy" =>
        /\ Traded =>
              /\ ~InWindow(now)
              /\ last.before.launch_range_confirmed
              /\ last.before.launch_high # None
              /\ last.before.launch_low # None
              /\ self.launch_range_confirmed
        /\ InWindow(now) =>
              /\ ~Traded
              /\ ~last.scanned
              /\ self.total_launch_trades = last.before.total_launch_trades
              /\ self.last_launch_trade = last.before.last_launch_trade

(* A trade one minute after the window closed, on a rejection at the high  *)
(* of a confirmed session.                                                 *)
C20_Witness ==
    /\ last.op = "execute_launch_strategy"
    /\ Traded
    /\ ~InWindow(now)
    /\ TimeOfDay(now) = launch_time_end + 1
    /\ last.scanned
    /\ last.before.launch_range_confirmed
    /\ self.total_launch_trades = 1
    /\ out.orders[Len(out.orders)].type = "MARKET"

(* ------------------------------------------------------------------ *)
(* SpecBuffer: update_market_data on a price history that is about to  *)
(* reach max_price_history.  The strategy has seen BufferStartLen      *)
(* samples, one a minute; last.arrivals lists every sample             *)
(* update_market_data was given since construction.                    *)
(* ------------------------------------------------------------------ *)

BufferMaxTicks == 4

BufferStartLen == 498

BufferStartHistory ==
    [i \in 1..BufferStartLen |->
        [timestamp |-> i, price |-> Z(100 + (i % 3)), volume |-> 1]]

BufferInit ==
    /\ self = calculate_technical_indicators(
                 [InitSelf EXCEPT !.price_history = BufferStartHistory,
                                  !.current_price = BufferStartHistory[BufferStartLen].price,
                                  !.last_mp_update = BufferStartLen,
                                  !.last_status_update = BufferStartLen])
    /\ conn = InitConn
    /\ out = EmptyOut
    /\ now = BufferStartLen
    /\ last = [op |-> "init", arrivals |-> BufferStartHistory]

(* The sample update_market_data is given in environment e at time t, if   *)
(* the feed delivers a price.                                              *)
Arrival(e, t) ==
    IF e.fault = "price" \/ e.mid_price = None \/ RLe(e.mid_price, Z(0)) THEN <<>>
    ELSE << [timestamp |-> t, price |-> e.mid_price,
             volume |-> IF e.fault = "volume" THEN 0 ELSE e.volume] >>

BufferTick(f) ==
    /\ now + 1 <= BufferStartLen + BufferMaxTicks
    /\ \E e \in {TickEnv(f, Z(1000))} :
       \E w \in {update_market_data(World(self, conn, e, now + 1))} :
          /\ self' = w.self
          /\ conn' = w.conn
          /\ out' = w.out
          /\ last' = [op |-> "update_market_data",
                      arrivals |-> last.arrivals \o Arrival(e, now + 1)]
    /\ now' = now + 1

BufferNext == \E f \in TickFeeds : BufferTick(f)

SpecBuffer == BufferInit /\ [][BufferNext]_vars

(* C15: after every tick the price history holds at most                   *)
(* max_price_history samples, and they are the most recent arrivals in     *)
(* the order of their arrival.                                             *)
C15_BufferKeepsMostRecent ==
    /\ Len(self.price_history) <= max_price_history
    /\ self.price_history = LastN(last.arrivals, max_price_history)

(* The 501st sample has arrived and the oldest one is gone.                *)
C15_Witness ==
    /\ last.op = "update_market_data"
    /\ Len(last.arrivals) = max_price_history + 1
    /\ Len(self.price_history) = max_price_history
    /\ self.price_history[1] = last.arrivals[2]
    /\ self.price_history[max_price_history] = last.arrivals[max_price_history + 1]

(* ------------------------------------------------------------------ *)
(* SpecRefresh: the market profile over successive ticks.  The         *)
(* strategy was constructed at time 0 and has seen RefreshStartLen     *)
(* samples, one a minute, too few for a build until now; each tick     *)
(* takes a new sample with update_market_data and calls                *)
(* update_market_profile, one minute, twenty-nine or thirty minutes    *)
(* after the tick before.                                              *)
(* ------------------------------------------------------------------ *)

RefreshMaxTicks == 4

RefreshStartLen == 99
RefreshPrices == {Z(100), Z(110)}
RefreshSteps == {1, 29, 30}

RefreshStartHistory ==
    [i \in 1..RefreshStartLen |->
        [timestamp |-> i, price |-> IF i % 2 = 0 THEN Z(100) ELSE Z(110), volume |-> 1]]

RefreshInit ==
    /\ self = calculate_technical_indicators(
                 [InitSelf EXCEPT !.price_history = RefreshStartHistory,
                                  !.current_price = RefreshStartHistory[RefreshStartLen].price])
    /\ conn = InitConn
    /\ out = EmptyOut
    /\ now = RefreshStartLen
    /\ last = [op |-> "init"]

RefreshTick(p, dt) ==
    /\ Len(self.price_history) < RefreshStartLen + RefreshMaxTicks
    /\ \E e \in {TickEnv(<<p, "none">>, Z(1000))} :
       \E w \in {update_market_profile(update_market_data(World(self, conn, e, now + dt)))} :
          /\ self' = w.self
          /\ conn' = w.conn
          /\ out' = w.out
          /\ last' = [op |-> "update_market_profile",
                      before |-> self,
                      built |-> w.self.last_mp_update # self.last_mp_update]
    /\ now' = now + dt

RefreshNext == \E p \in RefreshPrices, dt \in RefreshSteps : RefreshTick(p, dt)

SpecRefresh == RefreshInit /\ [][RefreshNext]_vars

ProfileFields ==
    { "mp_poc_price", "mp_vah_price", "mp_val_price", "mp_value_area_range",
      "mp_tpo_data", "mp_is_valid", "last_mp_update" }

(* C17: a profile build comes at least mp_update_frequency minutes after   *)
(* the build before it, and a tick inside that interval leaves the POC,    *)
(* the VAH, the VAL and the histogram as they were.                        *)
C17_OneBuildPerInterval ==
    last.op = "update_market_profile" =>
        /\ last.built => now - last.before.last_mp_update >= mp_update_frequency
        /\ now - last.before.last_mp_update < mp_update_frequency =>
              /\ ~last.built
              /\ \A f \in ProfileFields : self[f] = last.before[f]

(* A tick twenty-nine minutes after a build: the new sample is in the      *)
(* history, the profile is the one of the build.                           *)
C17_Witness ==
    /\ last.op = "update_market_profile"
    /\ last.before.mp_is_valid
    /\ now - last.before.last_mp_update = mp_update_frequency - 1
    /\ ~last.built
    /\ Len(self.price_history) = Len(last.before.price_history) + 1
    /\ self.mp_tpo_data = last.before.mp_tpo_data
    /\ self.mp_poc_price = last.before.mp_poc_price

(* ------------------------------------------------------------------ *)
(* Order events                                                        *)
(* ------------------------------------------------------------------ *)

WithoutId(entries, id) == SelectSeq(entries, LAMBDA e : e.id # id)

(* del of the first tracked entry with this id, the buy side first.        *)
remove_failed_grid_order(s, order_id) ==
    IF \E i \in DOMAIN s.active_grid_orders.buy : s.active_grid_orders.buy[i].id = order_id
    THEN [s EXCEPT !.active_grid_orders.buy = WithoutId(@, order_id)]
    ELSE [s EXCEPT !.active_grid_orders.sell = WithoutId(@, order_id)]

did_cancel_order(s, order_id) == remove_failed_grid_order(s, order_id)

(* ------------------------------------------------------------------ *)
(* SpecOrders: the grid and its orders over successive ticks.  Each    *)
(* tick sets the price (and, before a build, the ATR) as               *)
(* update_market_data does and runs execute_grid_strategy, one minute  *)
(* or sixty-one minutes after the tick before; out collects every      *)
(* order and cancel request since construction.  Between ticks the     *)
(* connector may report a requested cancellation as done.              *)
(* ------------------------------------------------------------------ *)

OrdersMaxTicks == 5

OrdersPrices == {Z(100), Z(104), Z(106)}
OrdersATRs == {Z(0), Z(1), Z(2)}
OrdersSteps == {1, 61}
OrdersFunds == {Z(1000), Z(0)}

OrdersEnv(usdt) == [balance_empty |-> FALSE, usdt_avail |-> usdt, base_avail |-> Z(10)]

TrackedIds(s) ==
    { s.active_grid_orders.buy[i].id : i \in DOMAIN s.active_grid_orders.buy }
        \cup { s.active_grid_orders.sell[i].id : i \in DOMAIN s.active_grid_orders.sell }

OrdersInit ==
    /\ self = [InitSelf EXCEPT !.grid_mode = "ATR Based"]
    /\ conn = InitConn
    /\ out = EmptyOut
    /\ now = 0
    /\ last = [op |-> "init", n |-> 0]

OrdersStep(op, s, e, dt) ==
    /\ last.n < OrdersMaxTicks
    /\ \E w \in {execute_grid_strategy([World(s, conn, e, now + dt) EXCEPT !.out = out])} :
           /\ self' = w.self
           /\ conn' = w.conn
           /\ out' = w.out
    /\ now' = now + dt
    /\ last' = [op |-> op, n |-> last.n + 1, before |-> s, env |-> e,
                orders_before |-> Len(out.orders),
                cancels_before |-> Len(out.cancels)]

OrdersInitialize(p, a, usdt, dt) ==
    /\ ~self.grid_initialized
    /\ \E e \in {OrdersEnv(usdt)} :
          OrdersStep("initialize_grid",
                     [self EXCEPT !.current_price = p, !.atr_value = a], e, dt)

OrdersManage(p, dt) ==
    /\ self.grid_initialized
    /\ OrdersStep("manage_grid_orders", [self EXCEPT !.current_price = p], NoEnv, dt)

OrdersCancelled(id) ==
    /\ id \in TrackedIds(self)
    /\ \E i \in DOMAIN out.cancels : out.cancels[i] = id
    /\ self' = did_cancel_order(self, id)
    /\ last' = [op |-> "did_cancel_order", n |-> last.n, before |-> self]
    /\ UNCHANGED <<conn, out, now>>

OrdersNext ==
    \/ \E p \in OrdersPrices, a \in OrdersATRs, usdt \in OrdersFunds, dt \in OrdersSteps :
          OrdersInitialize(p, a, usdt, dt)
    \/ \E p \in OrdersPrices, dt \in OrdersSteps : OrdersManage(p, dt)
    \/ \E id \in 1..conn.next_id : OrdersCancelled(id)

SpecOrders == OrdersInit /\ [][OrdersNext]_vars

(* ------------------------------------------------------------------ *)
(* Claims about the grid's orders                                      *)
(* ------------------------------------------------------------------ *)

(* The cancel requests of the last tick.                                   *)
NewCancels == { out.cancels[i] : i \in (last.cancels_before + 1)..Len(out.cancels) }

(* The order requests of the last tick.                                    *)
NewOrders == SubSeq(out.orders, last.orders_before + 1, Len(out.orders))

Rebalanced == last.op = "manage_grid_orders" /\ ~self.grid_initialized

Rebuilt == last.op = "initialize_grid" /\ self.grid_initialized

(* C21: the tick that triggers a rebalance ends with a cancel requested    *)
(* for every tracked order, the tracking table empty and grid_initialized  *)
(* false; the tick that rebuilds computes the base price, the spacing and  *)
(* both level lists from its own price and ATR alone, and tracks only      *)
(* orders of its own.                                                      *)
C21_RebalanceDiscardsPlan ==
    /\ Rebalanced =>
          /\ TrackedIds(last.before) \subseteq NewCancels
          /\ self.active_grid_orders = [buy |-> <<>>, sell |-> <<>>]
    /\ Rebuilt =>
          /\ self.grid_base_price = self.current_price
          /\ self.grid_spacing =
                RMax(RMul(self.current_price, grid_min_spread),
                     RMin(RMul(self.atr_value, atr_multiplier),
                          RMul(self.current_price,
                               RDiv(grid_max_spread, Z(base_grid_count)))))
          /\ Len(self.grid_sell_levels) = base_grid_count
          /\ \A i \in DOMAIN self.grid_sell_levels :
                self.grid_sell_levels[i]
                    = RAdd(self.grid_base_price, RMul(self.grid_spacing, Z(i)))
          /\ Len(self.grid_buy_levels) = base_grid_count
          /\ \A i \in DOMAIN self.grid_buy_levels :
                self.grid_buy_levels[i]
                    = RSub(self.grid_base_price, RMul(self.grid_spacing, Z(i)))
          /\ \A side \in {"buy", "sell"} :
                \A i \in DOMAIN self.active_grid_orders[side] :
                   self.active_grid_orders[side][i].timestamp = now

(* A rebuild after a rebalance: the previous plan had another base and     *)
(* another spacing, and its tracked order was cancelled.                   *)
C21_Witness ==
    /\ Rebuilt
    /\ Len(last.before.grid_sell_levels) = base_grid_count
    /\ last.before.grid_base_price = Z(100)
    /\ self.grid_base_price = Z(106)
    /\ last.before.grid_spacing # self.grid_spacing
    /\ last.before.active_grid_orders = [buy |-> <<>>, sell |-> <<>>]
    /\ Len(out.cancels) > 0
    /\ Len(NewOrders) > 0

(* The tracked orders of s that are older than max_order_age at time t.    *)
StaleIds(s, t) ==
    { s.active_grid_orders.buy[i].id :
         i \in { j \in DOMAIN s.active_grid_orders.buy :
                    t - s.active_grid_orders.buy[j].timestamp > max_order_age } }
    \cup
    { s.active_grid_orders.sell[i].id :
         i \in { j \in DOMAIN s.active_grid_orders.sell :
                    t - s.active_grid_orders.sell[j].timestamp > max_order_age } }

(* The ids for which a cancel was requested before the last tick.          *)
EarlierCancels == { out.cancels[i] : i \in 1..last.cancels_before }

PlanFields ==
    { "grid_base_price", "grid_spacing", "grid_buy_levels", "grid_sell_levels",
      "grid_initialized" }

Refreshed == last.op = "manage_grid_orders" /\ self.grid_initialized

(* The refresh requests a cancel for the stale orders and for no other.    *)
RefreshCancelsStale == Refreshed => NewCancels = StaleIds(last.before, now)

(* The refresh leaves the plan as it was.                                  *)
RefreshKeepsPlan == Refreshed => \A f \in PlanFields : self[f] = last.before[f]

(* C29: a manage_grid_orders tick without a rebalance requests a cancel    *)
(* for exactly the tracked orders older than max_order_age, leaves the     *)
(* plan unchanged, and requests the cancel of a stale order once, not      *)
(* again on a later tick.                                                  *)
C29_RefreshCancelsStaleOnce ==
    /\ RefreshCancelsStale
    /\ RefreshKeepsPlan
    /\ Refreshed => NewCancels \cap EarlierCancels = {}

(* The levels of a side that pass check_order_viability in the last tick.  *)
ViableLevels(side) ==
    LET levels == IF side = "buy" THEN self.grid_buy_levels ELSE self.grid_sell_levels
    IN  SelectSeq(levels,
                  LAMBDA level_price :
                     check_order_viability(World(self, conn, last.env, now),
                                           side = "buy", level_price, grid_order_amount))

(* The level prices of the tracked orders of a side, in tracking order.    *)
TrackedPrices(side) ==
    [i \in DOMAIN self.active_grid_orders[side] |-> self.active_grid_orders[side][i].price]

(* C30: starting from an empty tracking table, place_grid_orders submits   *)
(* one limit order for every buy and every sell level that passes          *)
(* check_order_viability and tracks each under its id with its level       *)
(* price: after initialisation the tracked orders are the viable levels.   *)
C30_OneOrderPerViableLevel ==
    Rebuilt =>
        /\ TrackedPrices("buy") = ViableLevels("buy")
        /\ TrackedPrices("sell") = ViableLevels("sell")
        /\ Len(NewOrders) = Len(ViableLevels("buy")) + Len(ViableLevels("sell"))
        /\ \A i \in DOMAIN NewOrders : NewOrders[i].type = "LIMIT"

(* ------------------------------------------------------------------ *)
(* SpecSpan: initialize_grid under every configured level count.  The  *)
(* class attribute base_grid_count is drawn at construction; each step *)
(* sets the price and the ATR as update_market_data and                *)
(* calculate_technical_indicators do and rebuilds the grid.            *)
(* ------------------------------------------------------------------ *)

SpanMaxCount == 32
SpanMaxTicks == 2

SpanPrices == {Z(100), Z(250)}
SpanATRs == {Z(0), Rat(1, 10), Z(1), Z(40)}

MaxSpacingOf(base, count) == RMul(base, RDiv(grid_max_spread, Z(count)))

ClampSpacingOf(raw, base, count) ==
    RMax(MinSpacing(base), RMin(raw, MaxSpacingOf(base, count)))

GridSpacingOf(s, base, count) ==
    LET raw == IF s.grid_mode = "ATR Based"
               THEN RMul(s.atr_value, atr_multiplier)
               ELSE RMul(base, RDiv(base_spacing_pct, Z(100)))
    IN  ClampSpacingOf(raw, base, count)

initialize_grid_of(w, count) ==
    IF RLe(w.self.current_price, Z(0)) \/ RLe(w.self.atr_value, Z(0)) THEN w
    ELSE LET base == GridBasePrice(w.self)
             spacing == GridSpacingOf(w.self, base, count)
         IN  place_grid_orders(
                [w EXCEPT !.self.grid_base_price = base,
                          !.self.grid_spacing = spacing,
                          !.self.grid_buy_levels = BuyLevels(base, spacing, 1, count),
                          !.self.grid_sell_levels = SellLevels(base, spacing, 1, count),
                          !.self.grid_initialized = TRUE])

SpanInit ==
    /\ self \in {[InitSelf EXCEPT !.grid_mode = m] : m \in GridModes}
    /\ conn = InitConn
    /\ out = EmptyOut
    /\ now = 0
    /\ last \in {[op |-> "init", base_grid_count |-> c] : c \in 1..SpanMaxCount}

SpanInitialize(p, a) ==
    /\ now < SpanMaxTicks
    /\ ~self.grid_initialized
    /\ \E w \in {initialize_grid_of(
                    World([self EXCEPT !.current_price = p, !.atr_value = a],
                          conn, OrdersEnv(Z(1000)), now + 1),
                    last.base_grid_count)} :
           /\ self' = w.self
           /\ conn' = w.conn
           /\ out' = w.out
    /\ now' = now + 1
    /\ last' = [last EXCEPT !.op = "initialize_grid"]

SpanNext == \E p \in SpanPrices, a \in SpanATRs : SpanInitialize(p, a)

SpecSpan == SpanInit /\ [][SpanNext]_vars

(* C22: after every successful initialize_grid the one-sided span of the   *)
(* grid stays within the maximum spread, whatever the level count:         *)
(* base_grid_count * grid_spacing <= grid_base_price * grid_max_spread.    *)
C22_SpanWithinMaxSpread ==
    (last.op = "initialize_grid" /\ self.grid_initialized) =>
        RLe(RMul(Z(last.base_grid_count), self.grid_spacing),
            RMul(self.grid_base_price, grid_max_spread))

(* ------------------------------------------------------------------ *)
(* Claims about the launch signals                                     *)
(* ------------------------------------------------------------------ *)

(* The signals detect_needle_formations returned in the last tick.  The    *)
(* trades of the tick change nothing the detection reads.                  *)
LastSignals ==
    IF last.op = "execute_launch_strategy" /\ last.scanned
    THEN detect_needle_formations(self)
    ELSE <<>>

LatestPrice == self.price_history[Len(self.price_history)].price
PreviousPrice == self.price_history[Len(self.price_history) - 1].price

(* C23: a short signal is produced only when the latest price p lies       *)
(* within 0.5% below the session high (launch_high*0.995 <= p <=           *)
(* launch_high), p is below the previous sample and the wick/body ratio at *)
(* the high is at least needle_body_ratio; a long signal only when         *)
(* launch_low <= p <= launch_low*1.005, p is above the previous sample and *)
(* the ratio at the low is at least needle_body_ratio.                     *)
C23_SignalOnlyAtRejection ==
    \A i \in DOMAIN LastSignals :
        LET recent_prices == LastN(self.price_history, 10)
        IN  /\ LastSignals[i].direction = "sell" =>
                 /\ RLe(RMul(self.launch_high, Rat(995, 1000)), LatestPrice)
                 /\ RLe(LatestPrice, self.launch_high)
                 /\ RLt(LatestPrice, PreviousPrice)
                 /\ RGe(calculate_wick_body_ratio(recent_prices, "high"), needle_body_ratio)
            /\ LastSignals[i].direction = "buy" =>
                 /\ RLe(self.launch_low, LatestPrice)
                 /\ RLe(LatestPrice, RMul(self.launch_low, Rat(1005, 1000)))
                 /\ RGt(LatestPrice, PreviousPrice)
                 /\ RGe(calculate_wick_body_ratio(recent_prices, "low"), needle_body_ratio)

(* ------------------------------------------------------------------ *)
(* SpecGate: the ticks after a session, as in SpecLaunch, for every    *)
(* bias, volatility ratio and balance that                             *)
(* calculate_technical_indicators and update_account_info can leave,   *)
(* an empty account included.                                          *)
(* ------------------------------------------------------------------ *)

GateMaxSamples == 5

GateBiases == {-1, 0, 1}
GateBalances == {Z(1000), Z(0)}

GateInit ==
    /\ \E b \in GateBiases, v \in LaunchVolatilities, a \in GateBalances,
          session \in LaunchSessions :
          self = RunSession([InitSelf EXCEPT !.current_bias = b,
                                             !.volatility_ratio = v,
                                             !.account_balance = a,
                                             !.last_launch_trade = LaunchStart - 60,
                                             !.last_mp_update = LaunchStart],
                            session, 1)
    /\ conn = InitConn
    /\ out = EmptyOut
    /\ now = LaunchStart + 2
    /\ last = [op |-> "init"]

GateTick(p, dt) ==
    /\ Len(self.price_history) < GateMaxSamples
    /\ \E w \in {LaunchTickWorld(self, conn, out, p, now + dt)} :
          /\ self' = w.self
          /\ conn' = w.conn
          /\ out' = w.out
          /\ last' = [op |-> "execute_launch_strategy",
                      before |-> self,
                      scanned |-> Scans(self, now + dt),
                      orders_before |-> Len(out.orders)]
    /\ now' = now + dt

GateNext == \E p \in LaunchPrices, dt \in LaunchSteps : GateTick(p, dt)

SpecGate == GateInit /\ [][GateNext]_vars

(* The three conditions of the validation gate.                            *)
PassesGate(s, signal) ==
    /\ RGe(signal.confidence, Rat(6, 10))
    /\ RGt(calculate_position_size(s, signal), Z(0))
    /\ enable_volatility_filter => RGe(s.volatility_ratio, volatility_threshold)

PassingSignals == SelectSeq(LastSignals, LAMBDA signal : PassesGate(self, signal))

GateOrders == SubSeq(out.orders, last.orders_before + 1, Len(out.orders))

(* C24: a launch order is submitted only for a signal with confidence at   *)
(* least 0.6, a position size above 0 and, the volatility filter being on, *)
(* a volatility ratio of at least volatility_threshold; a tick whose       *)
(* signals all fail one of the three submits nothing and leaves            *)
(* last_launch_trade and total_launch_trades as they were.                 *)
C24_OrdersOnlyThroughGate ==
    last.op = "execute_launch_strategy" =>
        /\ \A i \in DOMAIN GateOrders :
              \E j \in DOMAIN PassingSignals :
                 PassingSignals[j].direction = GateOrders[i].side
        /\ PassingSignals = <<>> =>
              /\ GateOrders = <<>>
              /\ self.last_launch_trade = last.before.last_launch_trade
              /\ self.total_launch_trades = last.before.total_launch_trades

(* A tick found a signal that the gate stopped.                            *)
C24_Witness ==
    /\ last.op = "execute_launch_strategy"
    /\ LastSignals # <<>>
    /\ PassingSignals = <<>>
    /\ out.orders = <<>>

(* ------------------------------------------------------------------ *)
(* Claims about the terms of the confidence score                      *)
(* ------------------------------------------------------------------ *)

(* The volatility and the volume term of calculate_signal_confidence.      *)
VolatilityTerm(s) ==
    IF RLe(Z(1), s.volatility_ratio) /\ RLe(s.volatility_ratio, Z(3))
    THEN Rat(2, 10) ELSE Z(0)

VolumeTerm(s) ==
    IF s.current_volume_ratio # None /\ RGt(s.current_volume_ratio, Rat(12, 10))
    THEN Rat(1, 10) ELSE Z(0)

(* What the score gained or lost on account of the bias: the terms sum to  *)
(* between 0.4 and 1, so the clamp changes nothing.                        *)
BiasTerm(s, confidence) ==
    RSub(confidence, RAdd(Rat(5, 10), RAdd(VolatilityTerm(s), VolumeTerm(s))))

Agrees(direction, bias) ==
    \/ direction = "bullish" /\ bias = 1
    \/ direction = "bearish" /\ bias = -1

Opposes(direction, bias) ==
    \/ direction = "bullish" /\ bias = -1
    \/ direction = "bearish" /\ bias = 1

(* C25: with the bias filter enabled the score gains 0.2 only when the     *)
(* bias agrees with the direction (+1 for a long, -1 for a short), loses   *)
(* 0.1 only when the bias is the opposite one, and a neutral bias neither  *)
(* adds nor subtracts.                                                     *)
C25_BiasTermFollowsAgreement ==
    (last.op = "calculate_signal_confidence" /\ self.enable_bias_filter) =>
        LET term == BiasTerm(self, last.confidence)
        IN  /\ term = Rat(2, 10) => Agrees(last.direction, self.current_bias)
            /\ term = Rat(-1, 10) => Opposes(last.direction, self.current_bias)
            /\ self.current_bias = 0 => term = Z(0)

(* The direction calculate_signal_confidence was called with for a signal. *)
ScoredAs(signal) == IF signal.direction = "buy" THEN "bullish" ELSE "bearish"

(* The score of a signal up to the volume term, clamped.                   *)
ScoreBeforeVolume(s, signal) ==
    RSub(calculate_signal_confidence(s, ScoredAs(signal)), VolumeTerm(s))

(* The volume term of the score never contributes: every signal a tick     *)
(* scores carries the score of the bias and volatility terms alone, the    *)
(* strategy having no current_volume_ratio.                                *)
VolumeTermNeverContributes ==
    \A i \in DOMAIN LastSignals :
        /\ self.current_volume_ratio = None
        /\ VolumeTerm(self) = Z(0)
        /\ LastSignals[i].confidence = ScoreBeforeVolume(self, LastSignals[i])

(* C26: the score gains 0.1 whenever the recent volume ratio exceeds 1.2:  *)
(* a signal is scored with a recent volume ratio at hand, so that the      *)
(* volume term can contribute, and whenever that ratio is above 1.2 the    *)
(* score includes the 0.1.                                                 *)
C26_VolumeTermContributes ==
    \A i \in DOMAIN LastSignals :
        /\ self.current_volume_ratio # None
        /\ RGt(self.current_volume_ratio, Rat(12, 10)) =>
              LastSignals[i].confidence =
                  RAdd(ScoreBeforeVolume(self, LastSignals[i]), Rat(1, 10))

(* ------------------------------------------------------------------ *)
(* SpecBias: calculate_technical_indicators on histories long enough   *)
(* for both averages.  The strategy holds 49 samples, thirty at one    *)
(* price and nineteen at another; each tick appends a sample, as       *)
(* update_market_data does, and computes the indicators.               *)
(* ------------------------------------------------------------------ *)

BiasMaxTicks == 2

BiasOlderLen == 30
BiasRecentLen == 19
BiasLevels == {Z(90), Z(100), Z(110)}
BiasPrices == {Z(80), Z(100), Z(120)}

BiasHistory(older, recent) ==
    [i \in 1..(BiasOlderLen + BiasRecentLen) |->
        [timestamp |-> i,
         price |-> IF i <= BiasOlderLen THEN older ELSE recent,
         volume |-> 0]]

BiasInit ==
    /\ \E older \in BiasLevels, recent \in BiasLevels :
          self = calculate_technical_indicators(
                    [InitSelf EXCEPT !.price_history = BiasHistory(older, recent),
                                     !.current_price = recent])
    /\ conn = InitConn
    /\ out = EmptyOut
    /\ now = BiasOlderLen + BiasRecentLen
    /\ last = [op |-> "init", n |-> 0]

BiasTick(p) ==
    /\ last.n < BiasMaxTicks
    /\ self' = calculate_technical_indicators(ObservePrice(self, p, now + 1))
    /\ now' = now + 1
    /\ last' = [op |-> "calculate_technical_indicators", n |-> last.n + 1]
    /\ UNCHANGED <<conn, out>>

BiasNext == \E p \in BiasPrices : BiasTick(p)

SpecBias == BiasInit /\ [][BiasNext]_vars

(* ------------------------------------------------------------------ *)
(* Claims about the indicators                                         *)
(* ------------------------------------------------------------------ *)

(* C27: after the indicators are computed, current_bias is +1 only if      *)
(* sma_20 > sma_50 and the price is above sma_20, -1 only if sma_20 <      *)
(* sma_50 and the price is below sma_20, and 0 in every mixed case.        *)
C27_BiasNeedsBothAverages ==
    (last.op = "calculate_technical_indicators" /\ Len(self.price_history) >= 50) =>
        LET up == RGt(self.sma_20, self.sma_50) /\ RGt(self.current_price, self.sma_20)
            down == RLt(self.sma_20, self.sma_50) /\ RLt(self.current_price, self.sma_20)
        IN  /\ self.current_bias = 1 => up
            /\ self.current_bias = -1 => down
            /\ ~up /\ ~down => self.current_bias = 0

(* ------------------------------------------------------------------ *)
(* SpecSize: calculate_position_size on its own, over balances, entry  *)
(* prices and stops, the degenerate ones included.                     *)
(* ------------------------------------------------------------------ *)

SizeBalances == {Z(0), Z(1), Z(1000), Rat(12345678, 10000)}
SizeEntries == {Z(0), Z(3), Z(7), Z(100)}
SizeStops == {Z(0), Rat(1, 2), Z(3), Rat(693, 100), Z(99), Z(101)}

SizeInit ==
    /\ \E a \in SizeBalances : self = [InitSelf EXCEPT !.account_balance = a]
    /\ conn = InitConn
    /\ out = EmptyOut
    /\ now = 0
    /\ \E entry \in SizeEntries, stop \in SizeStops :
          last = [op |-> "init", signal |-> [entry_price |-> entry, stop_loss |-> stop]]

SizeCall ==
    /\ last.op = "init"
    /\ last' = [op |-> "calculate_position_size",
                signal |-> last.signal,
                size |-> calculate_position_size(self, last.signal)]
    /\ UNCHANGED <<self, conn, out, now>>

SizeNext == SizeCall

SpecSize == SizeInit /\ [][SizeNext]_vars

(* The lot step of the size: four decimals.                                *)
SizeStep == Rat(1, 10000)

(* x is a whole number of lot steps within half a step of y.               *)
RoundedTo4(x, y) ==
    /\ RMul(x, Z(10000))[2] = 1
    /\ RLe(RAbs(RSub(x, y)), RDiv(SizeStep, Z(2)))

(* What calculate_position_size is to return for a balance, an entry and   *)
(* a stop, the notional being allowed to exceed max_position_value by      *)
(* slack.                                                                  *)
SizeAsStated(size, balance, entry, stop, slack) ==
    LET risk_amount == RDiv(RMul(balance, max_single_position), Z(100))
        max_position_value == risk_amount
        degenerate == \/ entry = stop
                      \/ RLe(entry, Z(0))
                      \/ RLe(stop, Z(0))
                      \/ balance = Z(0)
    IN  /\ RGe(size, Z(0))
        /\ degenerate => size = Z(0)
        /\ ~degenerate =>
              RoundedTo4(size,
                         RMin(RDiv(risk_amount, RAbs(RSub(entry, stop))),
                              RDiv(max_position_value, entry)))
        /\ RLe(RMul(size, entry), RAdd(max_position_value, slack))

(* C28: calculate_position_size returns min(risk_amount / |entry - stop|,  *)
(* max_position_value / entry) rounded to four decimals and never          *)
(* negative, risk_amount and max_position_value being balance *            *)
(* max_single_position / 100; it returns 0 when entry equals stop, when     *)
(* entry or stop is not positive and when the balance is 0; and the         *)
(* notional size * entry exceeds max_position_value by no more than the     *)
(* rounding step, 0.0001.                                                   *)
C28_PositionSizeWithinStep ==
    last.op = "calculate_position_size" =>
        SizeAsStated(last.size, self.account_balance, last.signal.entry_price,
                     last.signal.stop_loss, SizeStep)

(* C28, amended: the same, the notional exceeding max_position_value by no  *)
(* more than the value of half a rounding step, 0.00005 * entry.            *)
C28_PositionSize ==
    last.op = "calculate_position_size" =>
        SizeAsStated(last.size, self.account_balance, last.signal.entry_price,
                     last.signal.stop_loss,
                     RMul(RDiv(SizeStep, Z(2)), last.signal.entry_price))

(* A size that the limit to the maximum position value cut and the         *)
(* rounding raised: the notional lies above max_position_value.            *)
C28_Witness ==
    /\ last.op = "calculate_position_size"
    /\ RGt(last.size, Z(0))
    /\ RGt(RMul(last.size, last.signal.entry_price),
           RMul(self.account_balance, RDiv(max_single_position, Z(100))))

(* ------------------------------------------------------------------ *)
(* Emergency stop                                                      *)
(* ------------------------------------------------------------------ *)

(* Cancels every tracked grid order and disables trading; the reason's     *)
(* text follows the words "Emergency stop" in the message.                 *)
ReasonEmergencyStop == "Emergency stop"

emergency_stop(w) ==
    [cancel_all_grid_orders(w) EXCEPT !.self.can_trade = FALSE,
                                      !.self.restriction_reason = ReasonEmergencyStop]

(* ------------------------------------------------------------------ *)
(* SpecStop: the ticks of SpecTick, with one call of emergency_stop    *)
(* between two of them.  last.stopped tells that the stop has run and  *)
(* last.orders_at_stop how many orders had been placed by then.        *)
(* ------------------------------------------------------------------ *)

StopMaxTicks == 3

StopInit ==
    /\ \E script \in TickWarmUps : self = WarmUp(script)
    /\ conn = InitConn
    /\ out = EmptyOut
    /\ now = TickStart + TickWarmUpLen
    /\ last = [op |-> "init", stopped |-> FALSE, orders_at_stop |-> 0]

StopTick(f, b) ==
    /\ now + 1 <= TickStart + TickWarmUpLen + StopMaxTicks
    /\ \E e \in {TickEnv(f, b)} :
       \E r \in {on_tick([World(self, conn, e, now + 1) EXCEPT !.out = out])} :
          /\ self' = r.w.self
          /\ conn' = r.w.conn
          /\ out' = r.w.out
          /\ last' = [last EXCEPT !.op = "on_tick"]
    /\ now' = now + 1

EmergencyStop ==
    /\ ~last.stopped
    /\ \E w \in {emergency_stop([World(self, conn, NoEnv, now) EXCEPT !.out = out])} :
          /\ self' = w.self
          /\ conn' = w.conn
          /\ out' = w.out
    /\ last' = [op |-> "emergency_stop", stopped |-> TRUE,
                orders_at_stop |-> Len(out.orders), before |-> self]
    /\ UNCHANGED now

StopNext ==
    \/ \E f \in TickFeeds, b \in TickBalances : StopTick(f, b)
    \/ EmergencyStop

SpecStop == StopInit /\ [][StopNext]_vars

(* Every order tracked before the stop has been cancel-requested.          *)
StopCancelsTracked ==
    last.op = "emergency_stop" =>
        /\ \A id \in TrackedIds(last.before) :
              \E i \in DOMAIN out.cancels : out.cancels[i] = id
        /\ TrackedIds(self) = {}

(* C31: once emergency_stop has run, every tracked grid order has been     *)
(* cancel-requested and trading stays disabled: can_trade is false in      *)
(* every later tick and no later tick places an order.                     *)
C31_StopIsLatched ==
    last.stopped =>
        /\ StopCancelsTracked
        /\ ~self.can_trade
        /\ Len(out.orders) = last.orders_at_stop

(* ------------------------------------------------------------------ *)
(* SpecEarly: the first ticks of a strategy, from an empty price       *)
(* buffer.  The strategy is constructed at 07:56, inside the launch    *)
(* window; every tick runs the whole of on_tick on a price from the    *)
(* feed and a funded account, one minute or seventeen hours after the  *)
(* tick before.                                                        *)
(* ------------------------------------------------------------------ *)

EarlyMaxTicks == 5

EarlyPrices == {Z(980), Z(997), Z(998), Z(1000)}

EarlyInit ==
    /\ self = [InitSelf EXCEPT !.last_launch_trade = SessionStart - 60,
                               !.last_mp_update = SessionStart,
                               !.last_status_update = SessionStart]
    /\ conn = InitConn
    /\ out = EmptyOut
    /\ now = SessionStart
    /\ last = [op |-> "init", n |-> 0]

EarlyTick(p, dt) ==
    /\ last.n < EarlyMaxTicks
    /\ \E e \in {TickEnv(<<p, "none">>, Z(1000))} :
       \E r \in {on_tick([World(self, conn, e, now + dt) EXCEPT !.out = out])} :
          /\ self' = r.w.self
          /\ conn' = r.w.conn
          /\ out' = r.w.out
          /\ last' = [op |-> "on_tick", n |-> last.n + 1, steps |-> r.steps,
                      scanned |-> Scans(self, now + dt)]
    /\ now' = now + dt

EarlyNext == \E p \in EarlyPrices, dt \in SessionSteps : EarlyTick(p, dt)

SpecEarly == EarlyInit /\ [][EarlyNext]_vars

(* C32: while the price buffer holds fewer than 20 samples the indicators  *)
(* keep their initial values (atr 0, volatility ratio 0, trend 0, bias 0), *)
(* no grid is initialised and no grid or launch order is placed.           *)
C32_NothingBeforeTwentySamples ==
    Len(self.price_history) < 20 =>
        /\ self.atr_value = Z(0)
        /\ self.volatility_ratio = Z(0)
        /\ self.trend_direction = 0
        /\ self.current_bias = 0
        /\ ~self.grid_initialized
        /\ out.orders = <<>>

(* A tick on five samples passed the risk gate, ran the grid and the       *)
(* launch strategy and found a rejection at the session high, and yet      *)
(* nothing was ordered.                                                    *)
C32_Witness ==
    /\ last.op = "on_tick"
    /\ Len(self.price_history) = 5
    /\ self.can_trade
    /\ CallsOf(last.steps, "execute_grid_strategy") # {}
    /\ last.scanned
    /\ detect_needle_formations(self) # <<>>
    /\ out.orders = <<>>

(* ------------------------------------------------------------------ *)
(* Claims about what a tick leaves alone                                *)
(* ------------------------------------------------------------------ *)

(* What a denied tick may change: the price buffer, the indicators, the    *)
(* account facts and the verdict of the gate.                              *)
DeniedTickMayChange ==
    { "price_history", "current_price", "atr_value", "volatility_ratio",
      "trend_direction", "current_bias", "price_momentum", "sma_20", "sma_50",
      "account_balance", "current_portfolio_risk", "active_trades_count",
      "total_exposure", "can_trade", "restriction_reason" }

(* C33: a tick in which the risk gate denies leaves the grid plan, the     *)
(* tracked grid orders, the launch session, the market profile and         *)
(* max_drawdown as they were and requests no cancel; only the price        *)
(* buffer, the indicators, the account facts and can_trade and             *)
(* restriction_reason may change.                                          *)
C33_DeniedTickFrame ==
    (last.op = "on_tick" /\ ~self.can_trade) =>
        /\ \A f \in (DOMAIN self) \ DeniedTickMayChange : self[f] = last.before[f]
        /\ out.cancels = <<>>
        /\ out.orders = <<>>

(* A denied tick at a price that would have rebalanced a grid with a       *)
(* tracked order.                                                          *)
C33_Witness ==
    /\ last.op = "on_tick"
    /\ ~self.can_trade
    /\ last.before.can_trade
    /\ self.grid_initialized
    /\ TrackedIds(self) # {}
    /\ NeedsRebalance(self)
    /\ self.current_price # last.before.current_price

(* ------------------------------------------------------------------ *)
(* Order events, continued.  An event carries the id of the order; a   *)
(* fill also the amount filled and the price.                          *)
(* ------------------------------------------------------------------ *)

HasId(entries, order_id) == \E i \in DOMAIN entries : entries[i].id = order_id

(* Mutant: every fill counts as a grid trade, tracked or not.              *)
update_grid_order_tracking_counts_all(s, order_id, amount, price) ==
    [s EXCEPT !.active_grid_orders.buy = WithoutId(@, order_id),
              !.active_grid_orders.sell = WithoutId(@, order_id),
              !.total_grid_trades = @ + 1,
              !.grid_profit = RAdd(@, RMul(RMul(amount, price), Rat(1, 1000)))]

(* The first side that tracks the id loses the entry and counts a trade.   *)
update_grid_order_tracking(s, order_id, amount, price) ==
    LET counted == [s EXCEPT !.total_grid_trades = @ + 1,
                             !.grid_profit =
                                 RAdd(@, RMul(RMul(amount, price), Rat(1, 1000)))]
    IN  IF HasId(s.active_grid_orders.buy, order_id)
        THEN [counted EXCEPT !.active_grid_orders.buy = WithoutId(@, order_id)]
        ELSE IF HasId(s.active_grid_orders.sell, order_id)
        THEN [counted EXCEPT !.active_grid_orders.sell = WithoutId(@, order_id)]
        ELSE s

(* Mutant: a fill of a tracked order is booked as a loss.                  *)
did_fill_order_books_loss(s, order_id, amount, price) ==
    update_grid_order_tracking(
        [s EXCEPT !.total_trades = @ + 1,
                  !.losing_trades = @ + 1,
                  !.consecutive_losses = @ + 1],
        order_id, amount, price)

did_fill_order(s, order_id, amount, price) ==
    update_grid_order_tracking([s EXCEPT !.total_trades = @ + 1],
                               order_id, amount, price)

remove_completed_grid_order(s, order_id, side) ==
    [s EXCEPT !.active_grid_orders[side] = WithoutId(@, order_id)]

did_complete_buy_order(s, order_id) == remove_completed_grid_order(s, order_id, "buy")

did_complete_sell_order(s, order_id) == remove_completed_grid_order(s, order_id, "sell")

did_fail_order(s, order_id) == remove_failed_grid_order(s, order_id)

(* ------------------------------------------------------------------ *)
(* SpecEvents: ticks and order events in every order.  The strategy    *)
(* has run the warm-up of SpecTick; every tick runs the whole of       *)
(* on_tick on what the connector answers.  Between two ticks the       *)
(* connector may report, for an order it was given or for an order     *)
(* the strategy never placed, a fill (partial or whole, any number of  *)
(* times), the completion, a failure or a cancellation.  out collects  *)
(* every request since the warm-up; last.ever_tracked is the set of    *)
(* ids the tracking table has ever held.                               *)
(* ------------------------------------------------------------------ *)

EventsMaxTicks == 3
EventsMaxEvents == 2

EventsFeeds == { <<Z(100), "none">>, <<Z(106), "none">> }
EventsAmounts == { Rat(1, 20), grid_order_amount }


(* The order the connector was given under this id, if any.                *)
Issued(order_id) == { o \in { out.orders[i] : i \in DOMAIN out.orders } : o.id = order_id }

(* The sides a completion event for this id can name.                      *)
CompletionSides(order_id) ==
    IF Issued(order_id) = {} THEN {"buy", "sell"}
    ELSE { o.side : o \in Issued(order_id) }

(* The price a fill event for this id reports.                             *)
FillPrices(order_id) ==
    IF Issued(order_id) = {} THEN {Z(100)}
    ELSE { (IF o.price = None THEN self.current_price ELSE o.price) : o \in Issued(order_id) }

EventsInit ==
    /\ \E script \in TickWarmUps : self = WarmUp(script)
    /\ conn = InitConn
    /\ out = EmptyOut
    /\ now = TickStart + TickWarmUpLen
    /\ last = [op |-> "init", n |-> 0, k |-> 0, ever_tracked |-> {}]

EventsTick(f, b) ==
    /\ last.n < EventsMaxTicks
    /\ \E e \in {TickEnv(f, b)} :
       \E r \in {on_tick([World(self, conn, e, now + 1) EXCEPT !.out = out])} :
          /\ self' = r.w.self
          /\ conn' = r.w.conn
          /\ out' = r.w.out
          /\ last' = [op |-> "on_tick", n |-> last.n + 1, k |-> last.k,
                      ever_tracked |-> last.ever_tracked \cup TrackedIds(r.w.self),
                      before |-> self]
    /\ now' = now + 1

EventsHandle(kind, order_id, s1) ==
    /\ last.k < EventsMaxEvents
    /\ self' = s1
    /\ last' = [op |-> kind, n |-> last.n, k |-> last.k + 1,
                ever_tracked |-> last.ever_tracked,
                before |-> self, id |-> order_id]
    /\ UNCHANGED <<conn, out, now>>

EventsFill(order_id, amount) ==
    \E price \in FillPrices(order_id) :
        EventsHandle("did_fill_order", order_id,
                     did_fill_order(self, order_id, amount, price))

EventsComplete(order_id) ==
    \E side \in CompletionSides(order_id) :
        EventsHandle("did_complete_order", order_id,
                     IF side = "buy" THEN did_complete_buy_order(self, order_id)
                     ELSE did_complete_sell_order(self, order_id))

EventsFail(order_id) ==
    EventsHandle("did_fail_order", order_id, did_fail_order(self, order_id))

EventsCancel(order_id) ==
    EventsHandle("did_cancel_order", order_id, did_cancel_order(self, order_id))

EventsNext ==
    \/ \E f \in EventsFeeds, b \in TickBalances : EventsTick(f, b)
    \/ \E order_id \in 1..conn.next_id, amount \in EventsAmounts :
          EventsFill(order_id, amount)
    \/ \E order_id \in 1..conn.next_id : EventsComplete(order_id)
    \/ \E order_id \in 1..conn.next_id : EventsFail(order_id)
    \/ \E order_id \in 1..conn.next_id : EventsCancel(order_id)

SpecEvents == EventsInit /\ [][EventsNext]_vars

(* C34: no tick and no order event changes consecutive_losses, daily_pnl,  *)
(* winning_trades or losing_trades: they are 0 in every reachable state,   *)
(* and neither the consecutive-loss check nor the daily-loss check is ever *)
(* the reason of a denial.                                                 *)
C34_LossCountersNeverMove ==
    /\ self.consecutive_losses = 0
    /\ self.daily_pnl = Z(0)
    /\ self.winning_trades = 0
    /\ self.losing_trades = 0
    /\ self.restriction_reason \notin {ReasonConsecutiveLosses, ReasonDailyLoss}

(* A tracked grid order was filled, and a later tick was denied, on the    *)
(* balance.                                                                *)
C34_Witness ==
    /\ last.op = "on_tick"
    /\ self.total_grid_trades = 1
    /\ self.total_trades = 2
    /\ ~self.can_trade
    /\ self.restriction_reason = ReasonBalance

(* The order events of SpecEvents.                                         *)
OrderEvents ==
    { "did_fill_order", "did_complete_order", "did_fail_order", "did_cancel_order" }

(* C39: in every interleaving of ticks and order events, the first fill,   *)
(* completion, cancel or failure event for a tracked grid order removes    *)
(* its id from active_grid_orders; total_grid_trades goes up by one on the *)
(* fill of a tracked order and on nothing else, not on a later fill or the *)
(* completion of the same order and not for an untracked id, so that it    *)
(* never exceeds the number of grid orders ever tracked.                   *)
C39_OneTradePerTrackedOrder ==
    /\ self.total_grid_trades <= Cardinality(last.ever_tracked)
    /\ last.op \in OrderEvents =>
          /\ last.id \notin TrackedIds(self)
          /\ TrackedIds(self) = TrackedIds(last.before) \ {last.id}
          /\ self.total_grid_trades =
                last.before.total_grid_trades
                + (IF last.op = "did_fill_order" /\ last.id \in TrackedIds(last.before)
                   THEN 1 ELSE 0)
    /\ last.op = "on_tick" => self.total_grid_trades = last.before.total_grid_trades

(* A second fill of an order whose first fill was counted: the count stays *)
(* at one.                                                                 *)
C39_Witness ==
    /\ last.op = "did_fill_order"
    /\ last.id \in last.ever_tracked
    /\ last.id \notin TrackedIds(last.before)
    /\ last.before.total_grid_trades = 1
    /\ self.total_grid_trades = 1
    /\ self.total_trades = 2

(* ------------------------------------------------------------------ *)
(* SpecDrawdown: on_tick, tick after tick, with an account that falls  *)
(* and recovers.  Starts as SpecTick does; each tick the connector     *)
(* reports one of DrawdownBalances: 790 is 21% below 1000, 1200 is     *)
(* above it, 49 is below min_balance_threshold.                        *)
(* ------------------------------------------------------------------ *)

DrawdownMaxTicks == 4

DrawdownBalances == { Z(1000), Z(790), Z(1200), Z(49) }
DrawdownFeeds == { <<Z(100), "none">>, <<Z(106), "none">> }

DrawdownInit ==
    /\ \E script \in TickWarmUps : self = WarmUp(script)
    /\ conn = InitConn
    /\ out = EmptyOut
    /\ now = TickStart + TickWarmUpLen
    /\ last = [op |-> "init"]

DrawdownTick(f, b) ==
    /\ now + 1 <= TickStart + TickWarmUpLen + DrawdownMaxTicks
    /\ \E e \in {TickEnv(f, b)} :
       \E r \in {on_tick(World(self, conn, e, now + 1))} :
          /\ self' = r.w.self
          /\ conn' = r.w.conn
          /\ out' = r.w.out
          /\ last' = [op |-> "on_tick", steps |-> r.steps, env |-> e, before |-> self]
    /\ now' = now + 1

DrawdownNext == \E f \in DrawdownFeeds, b \in DrawdownBalances : DrawdownTick(f, b)

SpecDrawdown == DrawdownInit /\ [][DrawdownNext]_vars

(* C35: max_drawdown never decreases, and once it is above                 *)
(* emergency_stop_drawdown every later tick's risk_management_check        *)
(* denies, whatever balance the connector reports then: the tick ends at   *)
(* the check with can_trade false.                                         *)
C35_DrawdownStopIsPermanent ==
    last.op = "on_tick" =>
       /\ RGe(self.max_drawdown, last.before.max_drawdown)
       /\ RGt(last.before.max_drawdown, emergency_stop_drawdown) =>
             /\ ~self.can_trade
             /\ self.restriction_reason # ""
             /\ last.steps = GateSteps
             /\ self.max_drawdown = last.before.max_drawdown

(* The balance is back above the peak and the check still denies on the    *)
(* drawdown recorded earlier.                                              *)
C35_Witness ==
    /\ last.op = "on_tick"
    /\ RGt(last.before.max_drawdown, emergency_stop_drawdown)
    /\ RGt(self.account_balance, self.peak_balance)
    /\ ~self.can_trade
    /\ self.restriction_reason = ReasonDrawdown

(* C36: after every tick that reaches update_performance_metrics,          *)
(* peak_balance is at least account_balance, so that the current drawdown  *)
(* (peak_balance - account_balance) / peak_balance is not negative.        *)
C36_PeakIsRunningMax ==
    (last.op = "on_tick" /\ CallsOf(last.steps, "update_performance_metrics") # {}) =>
       /\ self.peak_balance # None
       /\ RGe(self.peak_balance, self.account_balance)
       /\ RGe(RDiv(RSub(self.peak_balance, self.account_balance), self.peak_balance),
              Z(0))

(* C37: every launch signal is well-formed.  A short has stop_loss =        *)
(* launch_high*1.01 and take_profit = launch_low with take_profit <         *)
(* entry_price < stop_loss; a long has stop_loss = launch_low*0.99 and      *)
(* take_profit = launch_high with stop_loss < entry_price < take_profit.    *)
C37_SignalWellFormed ==
    \A i \in DOMAIN LastSignals :
        LET signal == LastSignals[i]
        IN  /\ signal.direction = "sell" =>
                 /\ signal.stop_loss = RMul(self.launch_high, Rat(101, 100))
                 /\ signal.take_profit = self.launch_low
                 /\ RLt(signal.take_profit, signal.entry_price)
                 /\ RLt(signal.entry_price, signal.stop_loss)
            /\ signal.direction = "buy" =>
                 /\ signal.stop_loss = RMul(self.launch_low, Rat(99, 100))
                 /\ signal.take_profit = self.launch_high
                 /\ RLt(signal.stop_loss, signal.entry_price)
                 /\ RLt(signal.entry_price, signal.take_profit)

(* The levels of a signal are the ones the claim names; it is the order of  *)
(* the entry price among them that can fail.                                *)
SignalLevelsAsStated ==
    \A i \in DOMAIN LastSignals :
        LET signal == LastSignals[i]
        IN  /\ signal.direction = "sell" =>
                 /\ signal.stop_loss = RMul(self.launch_high, Rat(101, 100))
                 /\ signal.take_profit = self.launch_low
            /\ signal.direction = "buy" =>
                 /\ signal.stop_loss = RMul(self.launch_low, Rat(99, 100))
                 /\ signal.take_profit = self.launch_high

(* Within the bands of C23 the order holds.                                 *)
SignalOrderedInsideBand ==
    \A i \in DOMAIN LastSignals :
        LET signal == LastSignals[i]
        IN  /\ (signal.direction = "sell" /\ RLe(signal.entry_price, self.launch_high)) =>
                 /\ RLt(signal.take_profit, signal.entry_price)
                 /\ RLt(signal.entry_price, signal.stop_loss)
            /\ (signal.direction = "buy" /\ RGe(signal.entry_price, self.launch_low)) =>
                 /\ RLt(signal.stop_loss, signal.entry_price)
                 /\ RLt(signal.entry_price, signal.take_profit)

(* ------------------------------------------------------------------ *)
(* SpecLevels: the session levels over whole ticks.  The strategy is   *)
(* constructed as in SpecEarly, inside the launch window, on a funded  *)
(* account; get_mid_price answers with a price or with none, one       *)
(* minute or seventeen hours after the tick before.                    *)
(* ------------------------------------------------------------------ *)

LevelsMaxTicks == 4

LevelsFeeds == { None, Z(940), Z(980), Z(1000) }

LevelsInit ==
    /\ self = [InitSelf EXCEPT !.last_launch_trade = SessionStart - 60,
                               !.last_mp_update = SessionStart,
                               !.last_status_update = SessionStart]
    /\ conn = InitConn
    /\ out = EmptyOut
    /\ now = SessionStart
    /\ last = [op |-> "init", n |-> 0, received |-> {}]

LevelsTick(p, dt) ==
    /\ last.n < LevelsMaxTicks
    /\ \E e \in {TickEnv(<<p, "none">>, Z(1000))} :
       \E r \in {on_tick([World(self, conn, e, now + dt) EXCEPT !.out = out])} :
          /\ self' = r.w.self
          /\ conn' = r.w.conn
          /\ out' = r.w.out
          /\ last' = [op |-> "on_tick", n |-> last.n + 1, before |-> self,
                      received |-> last.received \cup ({p} \ {None})]
    /\ now' = now + dt

LevelsNext == \E p \in LevelsFeeds, dt \in SessionSteps : LevelsTick(p, dt)

SpecLevels == LevelsInit /\ [][LevelsNext]_vars

(* launch_high and launch_low are set together, low <= high, and they      *)
(* change only in a tick inside the window, the high upwards and the low   *)
(* downwards.                                                              *)
LevelsMoveInWindowOnly ==
    /\ self.launch_high = None <=> self.launch_low = None
    /\ self.launch_high # None => RLe(self.launch_low, self.launch_high)
    /\ last.op = "on_tick" =>
          /\ (self.launch_high # last.before.launch_high
              \/ self.launch_low # last.before.launch_low) =>
                (launch_time_start <= TimeOfDay(now) /\ TimeOfDay(now) <= launch_time_end)
          /\ last.before.launch_high # None =>
                /\ self.launch_high # None
                /\ RGe(self.launch_high, last.before.launch_high)
          /\ last.before.launch_low # None =>
                /\ self.launch_low # None
                /\ RLe(self.launch_low, last.before.launch_low)

(* C38: launch_high and launch_low are either both unset or both strictly  *)
(* positive prices received from the feed with launch_low <= launch_high;  *)
(* they change only in ticks inside the window, the high never decreasing  *)
(* and the low never increasing; the placeholder price 0 is never recorded *)
(* as a session extreme.                                                   *)
C38_LevelsAreFeedPrices ==
    /\ LevelsMoveInWindowOnly
    /\ self.launch_high # None =>
          /\ RGt(self.launch_high, Z(0))
          /\ RGt(self.launch_low, Z(0))
          /\ self.launch_high \in last.received
          /\ self.launch_low \in last.received

(* C40: a freshly built grid is stable at an unchanged price.  If          *)
(* initialize_grid succeeds and the price is the same in the following     *)
(* pass, that pass does not rebalance: the grid stays initialised with its *)
(* base price and its tracked orders, also when the base was blended with  *)
(* the POC, so there is no cycle initialise, cancel-all, initialise at a   *)
(* constant price.                                                         *)
C40_FreshGridStable ==
    [][ (PlanBuilt /\ self'.current_price = self.current_price) =>
           /\ self'.grid_initialized
           /\ self'.grid_base_price = self.grid_base_price
           /\ TrackedIds(self) \subseteq TrackedIds(self') ]_vars

(* Without a valid profile the base is the price and the grid is stable.   *)
FreshGridStableWithoutProfile ==
    [][ (PlanBuilt /\ self'.current_price = self.current_price
         /\ self.grid_base_price = self.current_price) =>
           /\ self'.grid_initialized
           /\ self'.grid_base_price = self.grid_base_price ]_vars

====
